---------------------------- MODULE Spec2Model ----------------------------
(***************************************************************************)
(* Model of mviedb: the catalog cache (movie_db.go) and the interactive    *)
(* selector (selector source, README.md lines 95-531).                     *)
(*                                                                         *)
(* Text is modelled at character level: a character is a one-character     *)
(* string, a token is a sequence of characters, and a query is a sequence  *)
(* of tokens (the string obtained by joining them with single spaces;      *)
(* strings.Fields and strings.Join(" ") are inverse on such strings).      *)
(***************************************************************************)
EXTENDS Integers, Sequences, FiniteSets, TLC

VARIABLES
    cache,              \* MovieDb.cache: key -> [body, createdAt]
    now,                \* wall clock, in seconds
    last,               \* what the latest MovieDb calls did (observable)
    mode,               \* Selector.mode
    tvId,               \* Selector.tvId
    seasonNumber,       \* Selector.seasonNumber
    tvSeason,           \* Selector.tvSeason
    query,              \* Selector.query
    tvShowSelections,   \* Selector.tvShowSelections: query -> show id
    pc,                 \* "idle" | "prompt" | "finished"
    args,               \* arguments of the running HandleQuery call
    loc,                \* its locals: myQuery, results, totalPages; the
                        \* selector as the call found it; the calls it made
    outcome,            \* what Handle returned for the latest file
    msgs,               \* messages printed by the latest step
    line,               \* the line read last
    files,              \* the files main has still to hand to Handle
    flags,              \* the flags of the run: -mv, -dry-run, -confirm, the
                        \* output directories
    disk,               \* the regular files: path -> [ino, data]
    manifest            \* the entries of the manifest file

\* what main works on besides the selector
mainVars == <<flags, disk, manifest>>

vars == <<cache, now, last, mode, tvId, seasonNumber, tvSeason, query,
          tvShowSelections, pc, args, loc, outcome, msgs, line, files, mainVars>>

selVars == <<mode, tvId, seasonNumber, tvSeason, query, tvShowSelections,
             pc, args, loc, outcome, msgs, line, files, mainVars>>

----------------------------------------------------------------------------
(* Bounds of the model *)

MaxTime == 125
MaxWait == 61
MaxTokens == 3

----------------------------------------------------------------------------
(* Characters, tokens, strings *)

Digits == <<"0", "1", "2", "3", "4", "5", "6", "7", "8", "9">>

DigitSet == {"0", "1", "2", "3", "4", "5", "6", "7", "8", "9"}

IsDigit(c) == c \in DigitSet

DigitVal(c) ==
    CASE c = "0" -> 0 [] c = "1" -> 1 [] c = "2" -> 2 [] c = "3" -> 3
      [] c = "4" -> 4 [] c = "5" -> 5 [] c = "6" -> 6 [] c = "7" -> 7
      [] c = "8" -> 8 [] c = "9" -> 9

AllDigits(s) == \A i \in 1..Len(s) : IsDigit(s[i])

RECURSIVE Flatten(_)
Flatten(ss) == IF ss = <<>> THEN <<>> ELSE Head(ss) \o Flatten(Tail(ss))

\* strings.Join(tokens, " ")
RECURSIVE Join(_)
Join(toks) ==
    IF toks = <<>> THEN <<>>
    ELSE IF Len(toks) = 1 THEN toks[1]
    ELSE toks[1] \o <<" ">> \o Join(Tail(toks))

\* strconv.Atoi on a string of digits; the empty string is an error, and the
\* callers ignore the error and keep the zero value
RECURSIVE AtoiAcc(_, _)
AtoiAcc(s, acc) ==
    IF s = <<>> THEN acc ELSE AtoiAcc(Tail(s), acc * 10 + DigitVal(Head(s)))

Atoi(s) == IF s = <<>> \/ ~AllDigits(s) THEN 0 ELSE AtoiAcc(s, 0)

\* fmt.Sprintf("%d", n)
RECURSIVE ItoaNat(_)
ItoaNat(n) ==
    IF n < 10 THEN <<Digits[n + 1]>>
    ELSE ItoaNat(n \div 10) \o <<Digits[(n % 10) + 1]>>

Itoa(n) == IF n < 0 THEN <<"-">> \o ItoaNat(0 - n) ELSE ItoaNat(n)

\* strings.TrimPrefix(s, "0"): removes one leading zero
TrimPrefix0(s) == IF s # <<>> /\ Head(s) = "0" THEN Tail(s) ELSE s


----------------------------------------------------------------------------
(* Hint extraction: extractTvSeasonEpisodeFromQuery *)

\* time.Now().Year() at the time of the run
CurrentYear == 2026

\* the digits captured by the leftmost match of  <letter>(\d+)  in tok
\* (regexp: leftmost match, greedy repetition); <<>> when there is no match
RECURSIVE DigitRun(_, _)
DigitRun(tok, i) ==
    IF i <= Len(tok) /\ IsDigit(tok[i]) THEN <<tok[i]>> \o DigitRun(tok, i + 1)
    ELSE <<>>

MarkerCapture(tok, letter) ==
    LET at == {i \in 1..(Len(tok) - 1) : tok[i] = letter /\ IsDigit(tok[i + 1])}
    IN  IF at = {} THEN <<>>
        ELSE DigitRun(tok, (CHOOSE i \in at : \A j \in at : i <= j) + 1)

\* fieldSeason / fieldEpisode: Atoi(TrimPrefix(capture, "0")), 0 without match
fieldSeason(tok) == Atoi(TrimPrefix0(MarkerCapture(tok, "s")))

fieldEpisode(tok) == Atoi(TrimPrefix0(MarkerCapture(tok, "e")))

\* yearReg = ^\d{4}$
yearRegMatch(tok) == Len(tok) = 4 /\ AllDigits(tok)

fieldYear(tok) == IF yearRegMatch(tok) THEN Atoi(tok) ELSE 0

yearInRange(y) == y >= 1900 /\ y <= CurrentYear + 1

\* mutant: a later token overrides a field already set
extractStep_LastWins(acc, tok) ==
    LET fs == fieldSeason(tok)
        fe == fieldEpisode(tok)
        fy == fieldYear(tok)
    IN  [query   |-> IF fs = 0 /\ fe = 0 /\ fy = 0
                     THEN Append(acc.query, tok) ELSE acc.query,
         season  |-> IF fs > 0 THEN fs ELSE acc.season,
         episode |-> IF fe > 0 THEN fe ELSE acc.episode,
         year    |-> IF yearInRange(fy) THEN fy ELSE acc.year]

\* one iteration of the loop over strings.Fields(query)
extractStep(acc, tok) ==
    LET fs == fieldSeason(tok)
        fe == fieldEpisode(tok)
        fy == fieldYear(tok)
    IN  [query   |-> IF fs = 0 /\ fe = 0 /\ fy = 0
                     THEN Append(acc.query, tok) ELSE acc.query,
         season  |-> IF fs > 0 /\ acc.season = 0 THEN fs ELSE acc.season,
         episode |-> IF fe > 0 /\ acc.episode = 0 THEN fe ELSE acc.episode,
         year    |-> IF yearInRange(fy) /\ acc.year = 0 THEN fy ELSE acc.year]

RECURSIVE extractFrom(_, _)
extractFrom(acc, toks) ==
    IF toks = <<>> THEN acc
    ELSE extractFrom(extractStep(acc, Head(toks)), Tail(toks))

extractTvSeasonEpisodeFromQuery(q) ==
    extractFrom([query |-> <<>>, season |-> 0, episode |-> 0, year |-> 0], q)

----------------------------------------------------------------------------
(* The remote catalog (themoviedb.org), as seen through the response types *)

T_show == <<"s", "h", "o", "w">>
T_film == <<"f", "i", "l", "m">>
T_name == <<"n", "a", "m", "e">>

Movie(id) == [type |-> "movie", Id |-> id]

Tv(id) == [type |-> "tv", Id |-> id]

TvEpisode(id, s, e) ==
    [type |-> "tv_episode", Id |-> id * 100 + s * 10 + e,
     SeasonNumber |-> s, EpisonNumber |-> e]

\* response of /3/search/movie: two pages of films (fewer with a year),
\* one movie called show, and for name a body of one movie whose last
\* field, "total_results", is a JSON string
CatalogSearchMovie(q, page, year) ==
    IF q # <<>> /\ q[1] = T_film /\ year = 0
    THEN IF page <= 1 THEN [Results |-> <<Movie(10), Movie(11)>>, TotalPages |-> 2]
         ELSE IF page = 2 THEN [Results |-> <<Movie(12)>>, TotalPages |-> 2]
         ELSE [Results |-> <<>>, TotalPages |-> 2]
    ELSE IF q # <<>> /\ q[1] = T_film /\ year = 2020 /\ page <= 1
    THEN [Results |-> <<Movie(11)>>, TotalPages |-> 1]
    ELSE IF q # <<>> /\ q[1] = T_show /\ year = 0 /\ page <= 1
    THEN [Results |-> <<Movie(13)>>, TotalPages |-> 1]
    ELSE IF q # <<>> /\ q[1] = T_name /\ page <= 1
    THEN [Results |-> <<Movie(14)>>, TotalPages |-> 1, Mistyped |-> {"total_results"}]
    ELSE [Results |-> <<>>, TotalPages |-> 0]

\* response of /3/search/tv: one page of three shows
CatalogSearchTv(q, page, year) ==
    IF q # <<>> /\ q[1] = T_show /\ page <= 1
    THEN IF year = 0
         THEN [Results |-> <<Tv(42), Tv(43), Tv(44)>>, TotalPages |-> 1]
         ELSE [Results |-> <<Tv(43)>>, TotalPages |-> 1]
    ELSE [Results |-> <<>>, TotalPages |-> 0]

\* response of /3/tv/{id}
CatalogTv(id) == [Id |-> id, Name |-> <<"name", id>>]

\* response of /3/tv/{id}/season/{n}: season n of every show has n + 1
\* episodes (season 0, the specials, has one)
CatalogTvSeason(id, n) ==
    [SeasonNumber |-> n,
     Episodes |-> [e \in 1..(n + 1) |-> TvEpisode(id, n, e)]]

\* the body the service returns for a request URL
RemoteBody(url) ==
    [req  |-> url,
     resp |-> CASE url.path = "search/movie" ->
                       CatalogSearchMovie(url.query, url.page, url.year)
                [] url.path = "search/tv" ->
                       CatalogSearchTv(url.query, url.page, url.year)
                [] url.path = "tv" -> CatalogTv(url.id)
                [] url.path = "tv/season" -> CatalogTvSeason(url.id, url.season)]

\* the requests the service answers with an error while the selector runs:
\* show 44 is gone, show 43 has no season 2, and a show search for film is
\* refused
Unavailable(url) ==
    \/ url.path = "tv" /\ url.id = 44
    \/ url.path = "tv/season" /\ url.id = 43 /\ url.season = 2
    \/ url.path = "search/tv" /\ url.query # <<>> /\ url.query[1] = T_film

----------------------------------------------------------------------------
(* MovieDb: request URLs, cache keys, cacheGet *)

\* NewMovieDb: cacheRetensionSeconds
cacheRetensionSeconds == 60

\* the literal text of the key formats
K_search_movie == <<"s","e","a","r","c","h","-","m","o","v","i","e","-">>
K_search_tv == <<"s","e","a","r","c","h","-","t","v","-">>
K_get_tv == <<"g","e","t","-","t","v","-">>
K_get_tv_season == <<"g","e","t","-","t","v","-","s","e","a","s","o","n","-">>

\* mutant: the page left out of the key
searchMovieKey_NoPage(q, page) == K_search_movie \o Join(q)

\* fmt.Sprintf("search-movie-%s-%d", query, page)
searchMovieKey(q, page) == K_search_movie \o Join(q) \o <<"-">> \o Itoa(page)

\* fmt.Sprintf("search-tv-%s-%d", query, page)
searchTvKey(q, page) == K_search_tv \o Join(q) \o <<"-">> \o Itoa(page)

\* fmt.Sprintf("get-tv-%d", tvId)
getTvKey(id) == K_get_tv \o Itoa(id)

\* fmt.Sprintf("get-tv-season-%d-%d", tv.Id, seasonNumber)
getTvSeasonKey(id, n) == K_get_tv_season \o Itoa(id) \o <<"-">> \o Itoa(n)

\* the parameters a request URL carries (page and year only when > 0)
searchMovieUrl(q, page, year) ==
    [path |-> "search/movie", query |-> q,
     page |-> IF page > 0 THEN page ELSE 0, year |-> IF year > 0 THEN year ELSE 0]

searchTvUrl(q, page, year) ==
    [path |-> "search/tv", query |-> q,
     page |-> IF page > 0 THEN page ELSE 0, year |-> IF year > 0 THEN year ELSE 0]

tvUrl(id) == [path |-> "tv", id |-> id]

tvSeasonUrl(id, n) == [path |-> "tv/season", id |-> id, season |-> n]

\* mutant: an entry expires when it reaches the retention window
cacheExpired_AtWindow(entry, t) == t - entry.createdAt >= cacheRetensionSeconds

\* age.Seconds() > c.cacheRetensionSeconds
cacheExpired(entry, t) == t - entry.createdAt > cacheRetensionSeconds

\* mutant: no sweep
cacheSweep_Nothing(c, t) == c

\* the sweep at the head of cacheGet (the empty-string keys the loop also
\* visits are never in the map: deleting them is a no-op)
cacheSweep(c, t) ==
    [k \in {k \in DOMAIN c : ~cacheExpired(c[k], t)} |-> c[k]]

\* what cacheGet stores after a successful request
cacheStore(c, key, body, t) ==
    [k \in DOMAIN c \cup {key} |->
        IF k = key THEN [body |-> body, createdAt |-> t] ELSE c[k]]

\* response := []byte{}
NoBody == [req |-> [path |-> "none"], resp |-> [none |-> TRUE]]

\* what a call of cacheGet reports: the cache it leaves, the body and the
\* error it returns, whether it went to the service
cacheGetResult(c, body, err, remote, key, url) ==
    [cache |-> c, body |-> body, err |-> err, remote |-> remote,
     key |-> key, url |-> url]

\* mutant: a failed request is stored like a successful one
cacheLookup_StoresFailure(swept, t, key, url, fail) ==
    IF key \in DOMAIN swept
    THEN cacheGetResult(swept, swept[key].body, FALSE, FALSE, key, url)
    ELSE IF fail
    THEN cacheGetResult(cacheStore(swept, key, NoBody, t), NoBody, TRUE, TRUE,
                     key, url)
    ELSE cacheGetResult(cacheStore(swept, key, RemoteBody(url), t),
                     RemoteBody(url), FALSE, TRUE, key, url)

\* cacheGet after its sweep: the entry of key if there is one, the request
\* otherwise; fail: the request fails (NewRequest, Client.Do, a status
\* outside 200..299, or ReadAll)
cacheLookup(swept, t, key, url, fail) ==
    IF key \in DOMAIN swept
    THEN cacheGetResult(swept, swept[key].body, FALSE, FALSE, key, url)
    ELSE IF fail
    THEN cacheGetResult(swept, NoBody, TRUE, TRUE, key, url)
    ELSE cacheGetResult(cacheStore(swept, key, RemoteBody(url), t),
                     RemoteBody(url), FALSE, TRUE, key, url)

\* cacheGet(key, url) on cache c at time t
cacheGet(c, t, key, url, fail) ==
    cacheLookup(cacheSweep(c, t), t, key, url, fail)

\* MovieDb.SearchMovie / SearchTv / GetTv / GetTvSeason: the cacheGet they make;
\* the decoded response is body.resp
SearchMovie(c, t, q, page, year, fail) ==
    cacheGet(c, t, searchMovieKey(q, page), searchMovieUrl(q, page, year), fail)

SearchTv(c, t, q, page, year, fail) ==
    cacheGet(c, t, searchTvKey(q, page), searchTvUrl(q, page, year), fail)

GetTv(c, t, id, fail) == cacheGet(c, t, getTvKey(id), tvUrl(id), fail)

GetTvSeason(c, t, tv, n, fail) ==
    cacheGet(c, t, getTvSeasonKey(tv.Id, n), tvSeasonUrl(tv.Id, n), fail)

\* the TvSeason value GetTvSeason returns: the decoded season, with TvName and
\* the episodes' TvName taken from tv
decodedTvSeason(tv, body) ==
    [SeasonNumber |-> body.resp.SeasonNumber,
     TvName   |-> tv.Name,
     Episodes |-> [i \in 1..Len(body.resp.Episodes) |->
                      [type |-> body.resp.Episodes[i].type,
                       Id |-> body.resp.Episodes[i].Id,
                       SeasonNumber |-> body.resp.Episodes[i].SeasonNumber,
                       EpisonNumber |-> body.resp.Episodes[i].EpisonNumber,
                       TvName |-> tv.Name]]]

\* what one call leaves in `last`
callRecord(r) == [key |-> r.key, url |-> r.url, remote |-> r.remote,
                  err |-> r.err, body |-> r.body]

----------------------------------------------------------------------------
(* Construction: NewMovieDb, NewSelector *)

movieSelector == "Movie"
tvSelector == "Show"
tvSeasonEpisodeSelector == "ShowEpisode"

\* TvSeason{}
EmptyTvSeason == [SeasonNumber |-> 0, TvName |-> <<>>, Episodes |-> <<>>]

NoArgs == [query |-> <<>>, manual |-> FALSE, common |-> <<>>, page |-> 0]

\* &Selector{mode: movieSelector, tvShowSelections: map[string]int{}}
NewSelectorValue ==
    [mode |-> movieSelector, tvId |-> 0, seasonNumber |-> 0,
     tvSeason |-> EmptyTvSeason, query |-> <<>>, tvShowSelections |-> <<>>]

NoLoc == [myQuery |-> <<>>, results |-> <<>>, totalPages |-> 0,
          entry |-> NewSelectorValue, calls |-> <<>>]

\* no line has been read
NoLine == <<"\n">>

\* no flags read, no file looked at
NoMain == flags = <<>> /\ disk = <<>> /\ manifest = <<>>

NewMovieDb == cache = <<>> /\ now = 0 /\ last = <<>>

NewSelector ==
    /\ mode = NewSelectorValue.mode
    /\ tvId = NewSelectorValue.tvId
    /\ seasonNumber = NewSelectorValue.seasonNumber
    /\ tvSeason = NewSelectorValue.tvSeason
    /\ query = NewSelectorValue.query
    /\ tvShowSelections = NewSelectorValue.tvShowSelections
    /\ pc = "idle"
    /\ args = NoArgs
    /\ loc = NoLoc
    /\ outcome = [kind |-> "none"]
    /\ msgs = {}
    /\ line = NoLine
    /\ NoMain

\* a MovieDb and a Selector that is handed no file
CacheInit == NewMovieDb /\ NewSelector /\ files = <<>>

\* time passes between two calls
Deltas == {cacheRetensionSeconds, cacheRetensionSeconds + 1}

Tick ==
    /\ \E d \in Deltas : now + d <= MaxTime /\ now' = now + d
    /\ UNCHANGED <<cache, last, selVars>>

----------------------------------------------------------------------------
(* Selector: mode setters *)

\* the Selector's fields as one value
Selector ==
    [mode |-> mode, tvId |-> tvId, seasonNumber |-> seasonNumber,
     tvSeason |-> tvSeason, query |-> query,
     tvShowSelections |-> tvShowSelections]

setMovieMode(S, q) ==
    [S EXCEPT !.mode = movieSelector, !.tvId = 0, !.seasonNumber = 0,
              !.tvSeason = EmptyTvSeason, !.query = q]

\* mutant: the fall back to Show mode keeps the bound show and season
setTvMode_KeepsSeason(S, q) == [S EXCEPT !.mode = tvSelector, !.query = q]

setTvMode(S, q) ==
    [S EXCEPT !.mode = tvSelector, !.tvId = 0, !.seasonNumber = 0,
              !.tvSeason = EmptyTvSeason, !.query = q]

\* mutant: nothing is remembered
rememberShow_Forgets(m, q, id) == m

\* s.tvShowSelections[query] = tvId
rememberShow(m, q, id) ==
    [k \in DOMAIN m \cup {q} |-> IF k = q THEN id ELSE m[k]]

\* what setTvSeasonEpisodeMode leaves: the selector, the cache, the calls
\* made, and whether it returned an error
setResult(S, c, calls, err) ==
    [sel |-> S, cache |-> c, calls |-> calls, err |-> err]

\* mutant: the show is bound without being remembered for the query
setTvSeasonEpisodeModeSeason_NotRemembered(S, id, n, q, r1, r2) ==
    IF r2.err
    THEN setResult(S, r2.cache, <<callRecord(r1), callRecord(r2)>>, TRUE)
    ELSE setResult([mode |-> tvSeasonEpisodeSelector,
                    tvId |-> id,
                    seasonNumber |-> n,
                    tvSeason |-> decodedTvSeason(r1.body.resp, r2.body),
                    query |-> q,
                    tvShowSelections |-> S.tvShowSelections],
                   r2.cache, <<callRecord(r1), callRecord(r2)>>, FALSE)

\* lines 186-197: after GetTvSeason returned r2
setTvSeasonEpisodeModeSeason(S, id, n, q, r1, r2) ==
    IF r2.err
    THEN setResult(S, r2.cache, <<callRecord(r1), callRecord(r2)>>, TRUE)
    ELSE setResult([mode |-> tvSeasonEpisodeSelector,
                    tvId |-> id,
                    seasonNumber |-> n,
                    tvSeason |-> decodedTvSeason(r1.body.resp, r2.body),
                    query |-> q,
                    tvShowSelections |->
                        rememberShow(S.tvShowSelections, q, id)],
                   r2.cache, <<callRecord(r1), callRecord(r2)>>, FALSE)

\* mutant: the show id is set before the season is looked up
setTvSeasonEpisodeModeTv_ShowFirst(S, t, id, n, q, r1) ==
    IF r1.err
    THEN setResult(S, r1.cache, <<callRecord(r1)>>, TRUE)
    ELSE setTvSeasonEpisodeModeSeason([S EXCEPT !.tvId = id], id, n, q, r1,
             GetTvSeason(r1.cache, t, r1.body.resp, n,
                         Unavailable(tvSeasonUrl(r1.body.resp.Id, n))))

\* lines 182-186: after GetTv returned r1
setTvSeasonEpisodeModeTv(S, t, id, n, q, r1) ==
    IF r1.err
    THEN setResult(S, r1.cache, <<callRecord(r1)>>, TRUE)
    ELSE setTvSeasonEpisodeModeSeason(S, id, n, q, r1,
             GetTvSeason(r1.cache, t, r1.body.resp, n,
                         Unavailable(tvSeasonUrl(r1.body.resp.Id, n))))

\* setTvSeasonEpisodeMode(tvId, seasonNumber, query) on selector S with cache
\* c at time t
setTvSeasonEpisodeMode(S, c, t, id, n, q) ==
    setTvSeasonEpisodeModeTv(S, t, id, n, q,
                             GetTv(c, t, id, Unavailable(tvUrl(id))))

----------------------------------------------------------------------------
(* Selector.HandleQuery, from its entry to the first prompt *)

\* mutant: the fall back never takes the common tokens
modeStep_ResidualOnly(S, ex, a) ==
    IF ex.season = 0 /\ ex.episode = 0
    THEN [sel |-> setMovieMode(S, ex.query), myQuery |-> ex.query]
    ELSE IF S.mode = movieSelector
    THEN [sel |-> setTvMode(S, ex.query), myQuery |-> ex.query]
    ELSE IF S.mode = tvSeasonEpisodeSelector
            /\ (S.seasonNumber # ex.season \/ S.query # ex.query)
    THEN [sel |-> setTvMode(S, ex.query), myQuery |-> ex.query]
    ELSE [sel |-> S, myQuery |-> ex.query]

\* mutant: a query without hints leaves a bound show for Show mode, not for
\* Movie mode
modeStep_NoMovieFromEpisode(S, ex, a) ==
    IF ex.season = 0 /\ ex.episode = 0 /\ S.mode # tvSeasonEpisodeSelector
    THEN [sel |-> setMovieMode(S, ex.query), myQuery |-> ex.query]
    ELSE IF S.mode = movieSelector
    THEN [sel |-> setTvMode(S, ex.query), myQuery |-> ex.query]
    ELSE IF S.mode = tvSeasonEpisodeSelector
            /\ (S.seasonNumber # ex.season \/ S.query # ex.query)
    THEN [sel |-> setTvMode(S, ex.query), myQuery |-> ex.query]
    ELSE [sel |-> S, myQuery |-> ex.query]

\* lines 260-269: the mode and the query the step goes on with
modeStep(S, ex, a) ==
    IF ex.season = 0 /\ ex.episode = 0
    THEN [sel |-> setMovieMode(S, ex.query), myQuery |-> ex.query]
    ELSE IF S.mode = movieSelector
    THEN [sel |-> setTvMode(S, ex.query), myQuery |-> ex.query]
    ELSE IF S.mode = tvSeasonEpisodeSelector
            /\ (S.seasonNumber # ex.season \/ S.query # ex.query)
    THEN LET q == IF ~a.manual /\ Len(a.common) > 0 THEN a.common ELSE ex.query
         IN  [sel |-> setTvMode(S, q), myQuery |-> q]
    ELSE [sel |-> S, myQuery |-> ex.query]

\* mutant: a remembered query is searched like any other
rememberedStep_Never(S, c, t, myQuery, ex) ==
    [sel |-> S, cache |-> c, calls |-> <<>>, msgs |-> {}]

\* lines 273-277: after setTvSeasonEpisodeMode returned r
rememberedBound(r) ==
    [sel |-> r.sel, cache |-> r.cache, calls |-> r.calls,
     msgs |-> IF r.err THEN {"Error selecting tv show based on previous query"}
              ELSE {}]

\* lines 271-278: a remembered query binds its show again
rememberedStep(S, c, t, myQuery, ex) ==
    IF S.mode = tvSelector /\ myQuery \in DOMAIN S.tvShowSelections
    THEN rememberedBound(setTvSeasonEpisodeMode(S, c, t,
                             S.tvShowSelections[myQuery], ex.season, myQuery))
    ELSE [sel |-> S, cache |-> c, calls |-> <<>>, msgs |-> {}]

\* json.Unmarshal(body, &response) of a search: a value of the wrong type for
\* a field is an error, the field is skipped and the fields before it are
\* decoded into response all the same
unmarshalSearch(body) ==
    [Results |-> body.resp.Results, TotalPages |-> body.resp.TotalPages,
     err |-> "Mistyped" \in DOMAIN body.resp]

\* what SearchMovie and SearchTv return after cacheGet returned r: the empty
\* response and cacheGet's error, or what Unmarshal made of the body
searchReturn(r) ==
    IF r.err THEN [Results |-> <<>>, TotalPages |-> 0, err |-> TRUE]
    ELSE unmarshalSearch(r.body)

\* lines 287-304: the error is printed, results and totalPages are taken
\* from the response whether or not there was an error
searchedResponse(r, resp, said) ==
    [cache |-> r.cache, calls |-> <<callRecord(r)>>,
     results |-> resp.Results,
     totalPages |-> resp.TotalPages,
     msgs |-> IF resp.err THEN {said} ELSE {}]

\* lines 287-304: after cacheGet returned r inside SearchMovie or SearchTv
searched(r, said) == searchedResponse(r, searchReturn(r), said)

\* mutant: Show mode searches movies
searchStep_MoviesInShowMode(S, c, t, myQuery, ex, page) ==
    IF myQuery # <<>> /\ S.mode \in {movieSelector, tvSelector}
    THEN searched(SearchMovie(c, t, myQuery, page, ex.year,
                      Unavailable(searchMovieUrl(myQuery, page, ex.year))),
                  "Error searching movies")
    ELSE IF S.mode = tvSeasonEpisodeSelector
    THEN [cache |-> c, calls |-> <<>>, results |-> S.tvSeason.Episodes,
          totalPages |-> 1, msgs |-> {}]
    ELSE [cache |-> c, calls |-> <<>>, results |-> <<>>, totalPages |-> 0,
          msgs |-> {}]

\* lines 286-313: the candidates of the step
searchStep(S, c, t, myQuery, ex, page) ==
    IF myQuery # <<>> /\ S.mode = movieSelector
    THEN searched(SearchMovie(c, t, myQuery, page, ex.year,
                      Unavailable(searchMovieUrl(myQuery, page, ex.year))),
                  "Error searching movies")
    ELSE IF myQuery # <<>> /\ S.mode = tvSelector
    THEN searched(SearchTv(c, t, myQuery, page, ex.year,
                      Unavailable(searchTvUrl(myQuery, page, ex.year))),
                  "Error searching tv shows")
    ELSE IF S.mode = tvSeasonEpisodeSelector
    THEN [cache |-> c, calls |-> <<>>, results |-> S.tvSeason.Episodes,
          totalPages |-> 1, msgs |-> {}]
    ELSE [cache |-> c, calls |-> <<>>, results |-> <<>>, totalPages |-> 0,
          msgs |-> {}]

\* lines 315-335: HandleQuery reaches its prompt with the candidates x
HandleQueryPrompt(S, m, r, x) ==
    [sel |-> r.sel, cache |-> x.cache, calls |-> r.calls \o x.calls,
     loc |-> [myQuery |-> m.myQuery, results |-> x.results,
              totalPages |-> x.totalPages, entry |-> S,
              calls |-> r.calls \o x.calls],
     msgs |-> r.msgs \cup x.msgs
              \cup (IF Len(x.results) = 0 THEN {"No results!"} ELSE {})]

\* lines 286-313 after the remembered-show check left r
HandleQuerySearch(S, t, a, ex, m, r) ==
    HandleQueryPrompt(S, m, r,
                      searchStep(r.sel, r.cache, t, m.myQuery, ex, a.page))

\* lines 271-278 after the mode step left m
HandleQueryRemembered(S, c, t, a, ex, m) ==
    HandleQuerySearch(S, t, a, ex, m,
                      rememberedStep(m.sel, c, t, m.myQuery, ex))

\* lines 260-269 after the extraction returned ex
HandleQueryMode(S, c, t, a, ex) ==
    HandleQueryRemembered(S, c, t, a, ex, modeStep(S, ex, a))

\* HandleQuery(query, manual, common, page) up to its first read of a line
HandleQueryEntry(S, c, t, a) ==
    HandleQueryMode(S, c, t, a, extractTvSeasonEpisodeFromQuery(a.query))

\* the selector fields after a step
SetSelector(S) ==
    /\ mode' = S.mode
    /\ tvId' = S.tvId
    /\ seasonNumber' = S.seasonNumber
    /\ tvSeason' = S.tvSeason
    /\ query' = S.query
    /\ tvShowSelections' = S.tvShowSelections

\* the state in which the call that reached its prompt as h waits for a
\* line; before: the MovieDb calls the step made before the call
AtPrompt(h, a, before) ==
    /\ SetSelector(h.sel)
    /\ cache' = h.cache
    /\ last' = before \o h.calls
    /\ args' = a
    /\ loc' = h.loc
    /\ msgs' = h.msgs
    /\ pc' = "prompt"

\* a HandleQuery call (first or re-entered) reaches its prompt
EnterHandleQuery(S, c, a, before) ==
    AtPrompt(HandleQueryEntry(S, c, now, a), a, before)

----------------------------------------------------------------------------
(* Text of lines and file names *)

\* strings.TrimSpace
RECURSIVE TrimLeft(_)
TrimLeft(s) == IF s # <<>> /\ Head(s) = " " THEN TrimLeft(Tail(s)) ELSE s

RECURSIVE TrimRight(_)
TrimRight(s) ==
    IF s # <<>> /\ s[Len(s)] = " " THEN TrimRight(SubSeq(s, 1, Len(s) - 1)) ELSE s

TrimSpace(s) == TrimRight(TrimLeft(s))

\* strings.Fields
RECURSIVE FieldsFrom(_, _, _)
FieldsFrom(s, cur, out) ==
    IF s = <<>> THEN (IF cur = <<>> THEN out ELSE Append(out, cur))
    ELSE IF Head(s) = " "
    THEN FieldsFrom(Tail(s), <<>>, IF cur = <<>> THEN out ELSE Append(out, cur))
    ELSE FieldsFrom(Tail(s), Append(cur, Head(s)), out)

Fields(s) == FieldsFrom(s, <<>>, <<>>)

\* intReg = ^\d+$
intRegMatch(s) == s # <<>> /\ AllDigits(s)

T_s01e01 == <<"s", "0", "1", "e", "0", "1">>
T_s02e01 == <<"s", "0", "2", "e", "0", "1">>
T_s01 == <<"s", "0", "1">>
T_e02 == <<"e", "0", "2">>
T_2020 == <<"2", "0", "2", "0">>

T_hd == <<"h", "d">>

\* a file as Handle sees it: the query GetQuery builds from its name and the
\* tokens commonDirWords finds shared with the files of its directory
File(q, common) == [query |-> q, common |-> common]

F_show_s01e01 == File(<<T_show, T_s01e01>>, <<T_show>>)
F_show_hd_s02e01 == File(<<T_show, T_hd, T_s02e01>>, <<T_show>>)
F_show_s02e01_alone == File(<<T_show, T_s02e01>>, <<>>)
F_film_2020 == File(<<T_film, T_2020>>, <<T_2020, T_film>>)
F_2020 == File(<<T_2020>>, <<T_2020>>)
F_film == File(<<T_film>>, <<T_film>>)
F_name == File(<<T_name>>, <<T_name>>)
F_show == File(<<T_show>>, <<T_show>>)
F_show_2020_s01e01 == File(<<T_show, T_2020, T_s01e01>>, <<T_2020, T_show>>)
F_show_2020_s02e01 == File(<<T_show, T_2020, T_s02e01>>, <<T_2020, T_show>>)
F_show_e02 == File(<<T_show, T_e02>>, <<T_show>>)
F_show_s01e02 == File(<<T_show, <<"s", "0", "1", "e", "0", "2">>>>, <<T_show>>)
F_show_s02e05 == File(<<T_show, <<"s", "0", "2", "e", "0", "5">>>>, <<T_show>>)

\* the file lists main is started with
Batches ==
    { <<F_show_s01e01, F_show_hd_s02e01>>,
      <<F_2020, F_show_s01e01, F_show_s02e01_alone>>,
      <<F_show_s01e01, F_film_2020, F_show_s02e01_alone>>,
      <<F_film, F_show_e02, F_show_s01e02, F_show_s02e05>>,
      <<F_name, F_film_2020>>,
      <<F_show_s02e01_alone, F_show_e02, F_show>>,
      <<F_show_2020_s01e01, F_show_2020_s02e01>> }

\* the lines the user can type
Lines ==
    { <<"q">>, <<"s">>, <<"p">>, <<"h">>, <<>>, <<"0">>, <<"2">>, <<"3", " ">>,
      Join(<<T_show, T_s02e01>>),
      Join(<<T_film, T_s01e01>>) }

Init == NewMovieDb /\ NewSelector /\ files \in Batches

----------------------------------------------------------------------------
(* Selector.Handle and the read loop of HandleQuery *)

Outcome(kind) == [kind |-> kind]

Resolved(m) == [kind |-> "resolved", media |-> m]

\* the hints of the running call's query
Hints == extractTvSeasonEpisodeFromQuery(args.query)

numResults == Len(loc.results)

\* mutant: the episode is the default whether or not the list is that long
defaultSelection_NoRange ==
    IF mode = tvSeasonEpisodeSelector /\ Hints.episode > 0
    THEN Hints.episode ELSE 1

\* lines 327-332
defaultSelection ==
    IF mode = tvSeasonEpisodeSelector /\ Hints.episode > 0
          /\ Hints.episode <= numResults
    THEN Hints.episode ELSE 1

\* HandleQuery returns to Handle's caller
Return(o, next) ==
    /\ outcome' = o
    /\ pc' = next
    /\ args' = NoArgs
    /\ loc' = NoLoc
    /\ msgs' = {}
    /\ last' = <<>>
    /\ UNCHANGED <<cache, now, files, mainVars, mode, tvId, seasonNumber, tvSeason,
                   query, tvShowSelections>>

\* the loop prints a message and prompts again
Reprompt(said) ==
    /\ msgs' = said
    /\ last' = <<>>
    /\ UNCHANGED <<cache, now, files, mainVars, mode, tvId, seasonNumber, tvSeason,
                   query, tvShowSelections, pc, args, loc, outcome>>

\* main hands the next file to Selector.Handle
StartFile ==
    /\ pc = "idle"
    /\ files # <<>>
    /\ EnterHandleQuery(Selector, cache,
                        [query |-> Head(files).query, manual |-> FALSE,
                         common |-> Head(files).common, page |-> 1], <<>>)
    /\ files' = Tail(files)
    /\ UNCHANGED mainVars
    /\ line' = NoLine
    /\ outcome' = Outcome("none")
    /\ UNCHANGED now

InputQuit ==
    /\ pc = "prompt"
    /\ \E l \in Lines : TrimSpace(l) = <<"q">> /\ line' = l
    /\ Return(Outcome("quit"), "finished")

\* mutant: a skip is reported as the same failure as a quit
InputSkip_AsQuit ==
    /\ pc = "prompt"
    /\ \E l \in Lines : TrimSpace(l) = <<"s">> /\ line' = l
    /\ Return(Outcome("quit"), "idle")

InputSkip ==
    /\ pc = "prompt"
    /\ \E l \in Lines : TrimSpace(l) = <<"s">> /\ line' = l
    /\ Return(Outcome("skipped"), "idle")

\* mutant: the page after the last one is asked for
InputPage_NoWrap ==
    /\ pc = "prompt"
    /\ \E l \in Lines : TrimSpace(l) = <<"p">> /\ line' = l
    /\ EnterHandleQuery(Selector, cache,
                        [args EXCEPT !.page = args.page + 1], <<>>)
    /\ UNCHANGED <<now, files, mainVars, outcome>>

InputPage ==
    /\ pc = "prompt"
    /\ \E l \in Lines : TrimSpace(l) = <<"p">> /\ line' = l
    /\ EnterHandleQuery(Selector, cache,
                        [args EXCEPT !.page = IF args.page < loc.totalPages
                                              THEN args.page + 1 ELSE 1],
                        <<>>)
    /\ UNCHANGED <<now, files, mainVars, outcome>>

InputHelp ==
    /\ pc = "prompt"
    /\ \E l \in Lines : TrimSpace(l) = <<"h">> /\ line' = l
    /\ Reprompt({"help"})

\* lines 403-409: after setTvSeasonEpisodeMode returned r
SelectShow(r) ==
    IF r.err
    THEN /\ msgs' = {"Invalid tv season selection"}
         /\ last' = r.calls
         /\ cache' = r.cache
         /\ UNCHANGED <<now, files, mainVars, mode, tvId, seasonNumber, tvSeason, query,
                        tvShowSelections, pc, args, loc, outcome>>
    ELSE /\ EnterHandleQuery(r.sel, r.cache, args, r.calls)
         /\ UNCHANGED <<now, files, mainVars, outcome>>

\* mutant: the selection is not asked whether the list is a list of shows
Select_NoShowCheck(iSel) ==
    IF iSel >= 1 /\ iSel <= numResults
    THEN Return(Resolved(loc.results[iSel]), "idle")
    ELSE Reprompt({"Please select one of the listed options."})

\* mutant: an index past the end of the list takes its last candidate
Select_Clamped(iSel) ==
    IF iSel >= 1 /\ numResults >= 1
    THEN IF mode = tvSelector
         THEN IF Hints.season > 0
              THEN SelectShow(setTvSeasonEpisodeMode(Selector, cache, now,
                       loc.results[IF iSel <= numResults THEN iSel
                                   ELSE numResults].Id,
                       Hints.season, loc.myQuery))
              ELSE Reprompt({"Unable to extract season number from query string."})
         ELSE Return(Resolved(loc.results[IF iSel <= numResults THEN iSel
                                          ELSE numResults]), "idle")
    ELSE Reprompt({"Please select one of the listed options."})

\* lines 398-419 for the index iSel
Select(iSel) ==
    IF iSel >= 1 /\ iSel <= numResults
    THEN IF mode = tvSelector
         THEN IF Hints.season > 0
              THEN SelectShow(setTvSeasonEpisodeMode(Selector, cache, now,
                       loc.results[iSel].Id, Hints.season, loc.myQuery))
              ELSE Reprompt({"Unable to extract season number from query string."})
         ELSE Return(Resolved(loc.results[iSel]), "idle")
    ELSE Reprompt({"Please select one of the listed options."})

\* lines 383-392: the empty line and the all-digit line
InputSelect ==
    /\ pc = "prompt"
    /\ \E l \in Lines :
          LET selection == TrimSpace(l)
          IN  /\ selection = <<>> \/ intRegMatch(selection)
              /\ line' = l
              /\ Select(IF selection = <<>> THEN defaultSelection
                        ELSE Atoi(selection))

\* mutant: the typed query is not flagged as typed
InputManual_NotFlagged ==
    /\ pc = "prompt"
    /\ \E l \in Lines :
          LET selection == TrimSpace(l)
          IN  /\ selection \notin {<<"q">>, <<"s">>, <<"p">>, <<"h">>, <<>>}
              /\ ~intRegMatch(selection)
              /\ line' = l
              /\ EnterHandleQuery(Selector, cache,
                                  [query |-> Fields(TrimSpace(selection)),
                                   manual |-> FALSE, common |-> args.common,
                                   page |-> 1], <<>>)
    /\ UNCHANGED <<now, files, mainVars, outcome>>

\* what line holds after a read that failed
EndOfInput == <<"\n", "EOF">>

\* lines 350-354: ReadString returned an error (the input is at its end);
\* the error is logged and the loop prompts again
InputEnd ==
    /\ pc = "prompt"
    /\ line' = EndOfInput
    /\ Reprompt({"Error getting selection"})

\* lines 393-396: any other text is a new query
InputManual ==
    /\ pc = "prompt"
    /\ \E l \in Lines :
          LET selection == TrimSpace(l)
          IN  /\ selection \notin {<<"q">>, <<"s">>, <<"p">>, <<"h">>, <<>>}
              /\ ~intRegMatch(selection)
              /\ line' = l
              /\ EnterHandleQuery(Selector, cache,
                                  [query |-> Fields(TrimSpace(selection)),
                                   manual |-> TRUE, common |-> args.common,
                                   page |-> 1], <<>>)
    /\ UNCHANGED <<now, files, mainVars, outcome>>

\* between two files the user waits until every cached response has expired
Wait ==
    /\ pc = "idle"
    /\ now + cacheRetensionSeconds + 1 <= MaxWait
    /\ now' = now + cacheRetensionSeconds + 1
    /\ UNCHANGED <<cache, last, selVars>>

Next ==
    \/ StartFile
    \/ InputQuit
    \/ InputSkip
    \/ InputPage
    \/ InputHelp
    \/ InputSelect
    \/ InputManual
    \/ InputEnd
    \/ Wait

Spec == Init /\ [][Next]_vars

----------------------------------------------------------------------------
(* The cache driven directly: any sequence of MovieDb calls and waits *)

T_a == <<"a">>
T_a1 == <<"a", "-", "1">>

DoSearchMovie(Q, P, Y) ==
    \E q \in Q, p \in P, y \in Y, fail \in BOOLEAN :
        LET r == SearchMovie(cache, now, q, p, y, fail)
        IN  cache' = r.cache /\ last' = <<callRecord(r)>>
            /\ UNCHANGED <<now, selVars>>

DoSearchTv(Q, P, Y) ==
    \E q \in Q, p \in P, y \in Y, fail \in BOOLEAN :
        LET r == SearchTv(cache, now, q, p, y, fail)
        IN  cache' = r.cache /\ last' = <<callRecord(r)>>
            /\ UNCHANGED <<now, selVars>>

DoGetTv(I) ==
    \E id \in I, fail \in BOOLEAN :
        LET r == GetTv(cache, now, id, fail)
        IN  cache' = r.cache /\ last' = <<callRecord(r)>>
            /\ UNCHANGED <<now, selVars>>

DoGetTvSeason(IS) ==
    \E x \in IS, fail \in BOOLEAN :
        LET r == GetTvSeason(cache, now, CatalogTv(x[1]), x[2], fail)
        IN  cache' = r.cache /\ last' = <<callRecord(r)>>
            /\ UNCHANGED <<now, selVars>>

\* few keys, with the clock running
CacheNext ==
    \/ DoSearchMovie({<<T_a>>}, {1}, {0, 2020})
    \/ DoSearchTv({<<T_a>>}, {1}, {0})
    \/ DoGetTv({1})
    \/ DoGetTvSeason({<<1, 2>>})
    \/ Tick

CacheSpec == CacheInit /\ [][CacheNext]_vars

\* many keys, at one instant
KeyNext ==
    \/ DoSearchMovie({<<T_a>>, <<T_a1>>}, {1, 2}, {0})
    \/ DoSearchTv({<<T_a>>}, {1}, {0})
    \/ DoGetTv({1, 11})
    \/ DoGetTvSeason({<<1, 11>>, <<11, 1>>})

KeySpec == CacheInit /\ [][KeyNext]_vars

----------------------------------------------------------------------------
(* Claims about the cache *)

entryAge(k) == now - cache[k].createdAt

\* a step of CacheSpec or KeySpec that is one MovieDb call
IsCallStep == now' = now /\ Len(last') = 1

\* C7: a fetch of a key whose entry is at most cacheRetensionSeconds old
\* (counted from its creation) makes no remote call, returns the stored
\* payload and leaves the entry as it was; a fetch of a key whose entry is
\* older makes the remote call again, and the old entry is gone afterwards
\* (the key is absent, or holds an entry created at this instant).
C7_CacheIdempotence ==
    [][IsCallStep =>
        LET r == last'[1]
        IN  /\ (r.key \in DOMAIN cache /\ entryAge(r.key) <= cacheRetensionSeconds)
                => /\ ~r.remote /\ ~r.err
                   /\ r.body = cache[r.key].body
                   /\ r.key \in DOMAIN cache' /\ cache'[r.key] = cache[r.key]
            /\ (r.key \in DOMAIN cache /\ entryAge(r.key) > cacheRetensionSeconds)
                => /\ r.remote
                   /\ (r.key \in DOMAIN cache' => cache'[r.key].createdAt = now)
            /\ (r.key \notin DOMAIN cache) => r.remote
      ]_vars

\* C7 witness: an entry created after the start of the run was hit when it was
\* exactly cacheRetensionSeconds old
C7_Witness ==
    /\ Len(last) = 1 /\ ~last[1].remote
    /\ last[1].key \in DOMAIN cache
    /\ cache[last[1].key].createdAt > 0
    /\ entryAge(last[1].key) = cacheRetensionSeconds

\* C8: every call first removes each held entry, of whatever key, that is
\* older than cacheRetensionSeconds and keeps each entry that is not; a
\* payload served from the cache is never older than that; and the cache
\* changes only in a call, never by the passing of time.
C8_ExpirySweep ==
    [][/\ IsCallStep =>
            LET r == last'[1]
            IN  /\ \A k \in DOMAIN cache :
                    /\ (entryAge(k) > cacheRetensionSeconds /\ k # r.key)
                          => k \notin DOMAIN cache'
                    /\ (entryAge(k) > cacheRetensionSeconds /\ k = r.key)
                          => (k \in DOMAIN cache' => cache'[k].createdAt = now)
                    /\ (entryAge(k) <= cacheRetensionSeconds)
                          => (k \in DOMAIN cache' /\ cache'[k] = cache[k])
                /\ ~r.remote => (r.key \in DOMAIN cache
                                  /\ entryAge(r.key) <= cacheRetensionSeconds)
       /\ now' # now => cache' = cache
      ]_vars

\* C8 witness: a call for one key has just swept, while an unexpired entry of
\* another key stayed (the cache held an expired entry of a third key before:
\* three keys were cached at different times)
C8_Witness ==
    /\ Len(last) = 1 /\ last[1].remote /\ ~last[1].err
    /\ now > cacheRetensionSeconds
    /\ \E k \in DOMAIN cache : k # last[1].key /\ entryAge(k) = cacheRetensionSeconds
    /\ \E k \in DOMAIN cache : k # last[1].key /\ entryAge(k) = 0

\* C9: a failing remote call returns the error, stores nothing under the
\* key, adds no entry, and leaves each unexpired entry as it was; a key that
\* is not in the cache is always fetched from the remote.
C9_FailureNotCached ==
    [][IsCallStep =>
        LET r == last'[1]
        IN  /\ r.err =>
                /\ r.remote
                /\ r.key \notin DOMAIN cache'
                /\ DOMAIN cache' \subseteq DOMAIN cache
                /\ \A k \in DOMAIN cache :
                      entryAge(k) <= cacheRetensionSeconds
                          => (k \in DOMAIN cache' /\ cache'[k] = cache[k])
            /\ (r.key \notin DOMAIN cache) => r.remote
      ]_vars

\* C9 witness: a call failed while the cache held an entry of another key
C9_Witness ==
    /\ Len(last) = 1 /\ last[1].err
    /\ \E k \in DOMAIN cache : k # last[1].key

\* two requests are the same operation with the same key arguments
SameOpArgs(u, v) ==
    /\ u.path = v.path
    /\ CASE u.path \in {"search/movie", "search/tv"} ->
                u.query = v.query /\ u.page = v.page
         [] u.path = "tv" -> u.id = v.id
         [] u.path = "tv/season" -> u.id = v.id /\ u.season = v.season
         [] OTHER -> FALSE

\* C10: a payload served from the cache was fetched by the same operation
\* with the same arguments (query text and page; id; id and season) as the
\* request it is served to, and so is every held entry for its key's requests.
C10_KeySeparation ==
    /\ (Len(last) = 1 /\ ~last[1].err /\ ~last[1].remote)
          => SameOpArgs(last[1].url, last[1].body.req)
    /\ (Len(last) = 1 /\ ~last[1].err /\ last[1].key \in DOMAIN cache)
          => SameOpArgs(last[1].url, cache[last[1].key].body.req)

\* C10 witness: page 2 of a movie search is served from the cache while page
\* 1 of the same search, the same show search, a show and a season are cached
C10_Witness ==
    /\ Len(last) = 1 /\ ~last[1].remote
    /\ last[1].url.path = "search/movie" /\ last[1].url.page = 2
    /\ Cardinality(DOMAIN cache) >= 6
    /\ \E k \in DOMAIN cache : cache[k].body.req.path = "search/tv"
    /\ \E k \in DOMAIN cache :
          /\ cache[k].body.req.path = "search/movie"
          /\ cache[k].body.req.page = 1
          /\ cache[k].body.req.query = last[1].url.query

----------------------------------------------------------------------------
(* Claims about the selector; they speak of the call of HandleQuery that *)
(* waits at its prompt: loc.entry is the selector as the call found it,  *)
(* loc.calls the MovieDb calls it made, loc.myQuery its effective query  *)

\* the calls of the running HandleQuery call to one endpoint
CallsTo(path) == {i \in 1..Len(loc.calls) : loc.calls[i].url.path = path}

\* the show or season lookup of (id, n) is refused by the service
LookupFails(id, n) ==
    Unavailable(tvUrl(id)) \/ Unavailable(tvSeasonUrl(id, n))

\* the selector holds no show
Unbound == tvId = 0 /\ seasonNumber = 0 /\ tvSeason = EmptyTvSeason

\* the selector is bound to show id and the season of the hints, by a bind the
\* running call made itself
BoundBy(id) ==
    /\ mode = tvSeasonEpisodeSelector
    /\ tvId = id
    /\ seasonNumber = Hints.season
    /\ tvSeason.SeasonNumber = Hints.season
    /\ query = loc.myQuery
    /\ CallsTo("tv") # {} /\ CallsTo("tv/season") # {}

\* the running call was in Show mode after its mode step, with an effective
\* query that the map held when the call began
ShowModeRemembered ==
    /\ pc = "prompt"
    /\ modeStep(loc.entry, Hints, args).sel.mode = tvSelector
    /\ loc.myQuery \in DOMAIN loc.entry.tvShowSelections

\* C1 as stated: whenever HandleQuery is in Show mode and its effective query
\* is a key of tvShowSelections, the call ends bound in ShowEpisode mode to
\* the remembered show and the extracted season, and it issued no show search.
C1_AsStated ==
    ShowModeRemembered =>
        /\ BoundBy(loc.entry.tvShowSelections[loc.myQuery])
        /\ CallsTo("search/tv") = {}

\* C1: whenever HandleQuery is in Show mode and its effective query is a key
\* of tvShowSelections, then, if the lookups of the remembered show and of the
\* extracted season succeed, the call ends bound in ShowEpisode mode to that show
\* and season and issues no show search; if a lookup fails, the call stays
\* in Show mode, unbound, and goes on to the show search of a non-empty query.
C1_RememberedShortCircuit ==
    ShowModeRemembered =>
        LET id == loc.entry.tvShowSelections[loc.myQuery]
        IN  IF LookupFails(id, Hints.season)
            THEN /\ mode = tvSelector /\ Unbound
                 /\ tvShowSelections = loc.entry.tvShowSelections
                 /\ (loc.myQuery # <<>>) => Cardinality(CallsTo("search/tv")) = 1
            ELSE /\ BoundBy(id)
                 /\ CallsTo("search/tv") = {}
                 /\ CallsTo("search/movie") = {}
                 /\ loc.results = tvSeason.Episodes

\* C1 witness: a file begins (no line read, query not manual) in Movie mode
\* with a remembered query, and the call binds the remembered show
C1_Witness ==
    /\ ShowModeRemembered
    /\ line = NoLine /\ ~args.manual
    /\ loc.entry.mode = movieSelector
    /\ mode = tvSeasonEpisodeSelector
    /\ tvId = loc.entry.tvShowSelections[loc.myQuery]

\* the running call began in ShowEpisode mode with a season or episode hint,
\* and the hinted season or the residual query is not the bound one
ShowEpisodeDiffers ==
    /\ pc = "prompt"
    /\ loc.entry.mode = tvSeasonEpisodeSelector
    /\ Hints.season # 0 \/ Hints.episode # 0
    /\ Hints.season # loc.entry.seasonNumber \/ Hints.query # loc.entry.query

\* the call fell back to Show mode with the query q: it is in Show mode,
\* unbound, with q, or the remembered-show check bound q's show again
FellBackWith(q) ==
    /\ loc.myQuery = q
    /\ \/ mode = tvSelector /\ Unbound /\ query = q
       \/ /\ q \in DOMAIN loc.entry.tvShowSelections
          /\ BoundBy(loc.entry.tvShowSelections[q])

\* C2 as stated: a call that begins in ShowEpisode mode with differing season
\* or query falls back to Show mode; the query it goes on with is the common
\* tokens of the directory unless the query was typed, and the residual of
\* the typed text if it was.
C2_AsStated ==
    ShowEpisodeDiffers =>
        FellBackWith(IF args.manual THEN Hints.query ELSE args.common)

\* C2: a call that begins in ShowEpisode mode with differing season or query
\* falls back to Show mode (show, season and episodes cleared); the query it
\* goes on with is the common tokens of the directory when the query was not
\* typed and there are common tokens, and the residual of the query otherwise.
C2_ShowEpisodeFallback ==
    ShowEpisodeDiffers =>
        FellBackWith(IF ~args.manual /\ args.common # <<>>
                     THEN args.common ELSE Hints.query)

\* C2 witness: a file whose residual is not the common tokens of its directory
\* began in ShowEpisode mode and fell back
C2_Witness ==
    /\ ShowEpisodeDiffers
    /\ ~args.manual /\ line = NoLine
    /\ args.common # <<>> /\ args.common # Hints.query
    /\ loc.myQuery = args.common

\* C3: at the prompt of every call: with no season and no episode hint the
\* selector is in Movie mode, unbound, whatever the mode was before and
\* whatever the year hint; with such a hint and Movie mode before, the call
\* went on in Show mode with the residual query (it is in Show mode, or the
\* remembered-show check has bound the show of that query).
C3_ModeDerivation ==
    pc = "prompt" =>
        /\ (Hints.season = 0 /\ Hints.episode = 0)
              => /\ mode = movieSelector /\ Unbound
                 /\ query = Hints.query /\ loc.myQuery = Hints.query
        /\ ((Hints.season # 0 \/ Hints.episode # 0)
               /\ loc.entry.mode = movieSelector)
              => FellBackWith(Hints.query)

\* C3 witness: a file with a year hint only, begun in ShowEpisode mode, is in
\* Movie mode
C3_Witness ==
    /\ pc = "prompt"
    /\ Hints.season = 0 /\ Hints.episode = 0 /\ Hints.year # 0
    /\ loc.entry.mode = tvSeasonEpisodeSelector
    /\ mode = movieSelector

\* the line read by the step is the number k
ReadNumber(k) ==
    /\ intRegMatch(TrimSpace(line'))
    /\ Atoi(TrimSpace(line')) = k

\* the step binds show id: the selector is in ShowEpisode mode for id and the
\* hinted season, the map holds the effective query for id, and the episodes of
\* the season are the candidates at the prompt
BindsAndLists(id) ==
    /\ mode' = tvSeasonEpisodeSelector
    /\ tvId' = id
    /\ seasonNumber' = Hints.season
    /\ tvSeason'.SeasonNumber = Hints.season
    /\ loc.myQuery \in DOMAIN tvShowSelections'
    /\ tvShowSelections'[loc.myQuery] = id
    /\ pc' = "prompt"
    /\ loc'.results = tvSeason'.Episodes
    /\ loc'.results # <<>>

\* C4 as stated: in Show mode with a season hint, the line k, 1 <= k <= the
\* number of candidates, binds the k-th candidate and the season, records the
\* effective query for it, and the season's episodes are listed at the next
\* prompt.
C4_AsStated ==
    [][(pc = "prompt" /\ mode = tvSelector /\ Hints.season > 0)
          => \A k \in 1..numResults :
                ReadNumber(k) => BindsAndLists(loc.results[k].Id)
      ]_vars

\* C4: in Show mode with a season hint, the line k, 1 <= k <= the number of
\* candidates, binds the k-th candidate and the season, records the effective
\* query for it and lists the season's episodes at the next prompt, if the
\* lookups of that show and season succeed; if one fails, the selector, the
\* map and the candidates stay as they were and the same prompt is shown
\* again with "Invalid tv season selection".
C4_ShowSelection ==
    [][(pc = "prompt" /\ mode = tvSelector /\ Hints.season > 0)
          => \A k \in 1..numResults :
                ReadNumber(k) =>
                    IF LookupFails(loc.results[k].Id, Hints.season)
                    THEN /\ UNCHANGED <<mode, tvId, seasonNumber, tvSeason,
                                        query, tvShowSelections, pc, args, loc>>
                         /\ msgs' = {"Invalid tv season selection"}
                    ELSE BindsAndLists(loc.results[k].Id)
      ]_vars

\* C4 witness: the line 2 was read in Show mode and the second show is bound,
\* its episodes listed
C4_Witness ==
    /\ pc = "prompt"
    /\ TrimSpace(line) = <<"2">>
    /\ mode = tvSeasonEpisodeSelector
    /\ tvId = 43
    /\ loc.myQuery \in DOMAIN tvShowSelections
    /\ tvShowSelections[loc.myQuery] = 43
    /\ loc.results = tvSeason.Episodes

\* C5: in every state: in Movie and in Show mode the show id is 0, the season
\* is 0 and no episodes are held; in ShowEpisode mode the held episodes are
\* those the catalog's season lookup returns for (tvId, seasonNumber).
C5_SelectionState ==
    /\ mode \in {movieSelector, tvSelector, tvSeasonEpisodeSelector}
    /\ mode \in {movieSelector, tvSelector}
          => tvId = 0 /\ seasonNumber = 0 /\ tvSeason.Episodes = <<>>
    /\ mode = tvSeasonEpisodeSelector
          => tvSeason = decodedTvSeason(CatalogTv(tvId),
                            RemoteBody(tvSeasonUrl(tvId, seasonNumber)))

\* C5 witness: a call that began bound to one season is bound to another
C5_Witness ==
    /\ pc = "prompt"
    /\ mode = tvSeasonEpisodeSelector
    /\ loc.entry.mode = tvSeasonEpisodeSelector
    /\ loc.entry.seasonNumber # seasonNumber
    /\ Len(tvSeason.Episodes) = seasonNumber + 1

\* the running call made exactly one search, to path, for its effective
\* query, its page and the year hint
OneSearch(path) ==
    /\ Cardinality(CallsTo("search/movie") \cup CallsTo("search/tv")) = 1
    /\ \E i \in CallsTo(path) :
          /\ loc.calls[i].url.query = loc.myQuery
          /\ loc.calls[i].url.page = args.page
          /\ loc.calls[i].url.year = Hints.year

NoSearch == CallsTo("search/movie") = {} /\ CallsTo("search/tv") = {}

\* in ShowEpisode mode the candidates are the held episodes, on one page
ListsHeldSeason ==
    /\ NoSearch
    /\ loc.results = tvSeason.Episodes
    /\ loc.totalPages = 1

\* C6 as stated: the call at its prompt made exactly a movie search in Movie
\* mode, exactly a show search in Show mode, and no search in ShowEpisode
\* mode, where the candidates are the held episodes and the page count is 1.
C6_AsStated ==
    pc = "prompt" =>
        /\ mode = movieSelector => OneSearch("search/movie")
        /\ mode = tvSelector => OneSearch("search/tv")
        /\ mode = tvSeasonEpisodeSelector => ListsHeldSeason

\* C6: the call at its prompt, if its effective query is not empty, made
\* exactly a movie search in Movie mode and exactly a show search in Show
\* mode; with an empty query it made no search in these modes and has no
\* candidates and no pages; in ShowEpisode mode it made no search, the
\* candidates are the held episodes and the page count is 1.
C6_SearchDispatch ==
    pc = "prompt" =>
        /\ (mode = movieSelector /\ loc.myQuery # <<>>)
              => OneSearch("search/movie")
        /\ (mode = tvSelector /\ loc.myQuery # <<>>)
              => OneSearch("search/tv")
        /\ (mode \in {movieSelector, tvSelector} /\ loc.myQuery = <<>>)
              => NoSearch /\ loc.results = <<>> /\ loc.totalPages = 0
        /\ mode = tvSeasonEpisodeSelector => ListsHeldSeason

\* C6 witness: a movie search with a year hint was made in Movie mode, by a
\* call that began in ShowEpisode mode
C6_Witness ==
    /\ pc = "prompt"
    /\ mode = movieSelector
    /\ loc.entry.mode = tvSeasonEpisodeSelector
    /\ OneSearch("search/movie")
    /\ Hints.year = 2020
    /\ loc.results # <<>>

----------------------------------------------------------------------------
(* extractTvSeasonEpisodeFromQuery applied to any short query *)

T_s02e05 == <<"s", "0", "2", "e", "0", "5">>
T_s03 == <<"s", "0", "3">>
T_e07 == <<"e", "0", "7">>
T_s00 == <<"s", "0", "0">>
T_1800 == <<"1", "8", "0", "0">>
T_2028 == <<"2", "0", "2", "8">>

\* the tokens of the queries
ExtractTokens ==
    {T_show, T_name, T_s02e05, T_s03, T_e07, T_s00, T_2020, T_1800, T_2028}

RECURSIVE SeqsUpTo(_, _)
SeqsUpTo(S, n) ==
    IF n = 0 THEN {<<>>}
    ELSE LET shorter == SeqsUpTo(S, n - 1)
         IN  shorter \cup {Append(q, t) : q \in shorter, t \in S}

ExtractInit ==
    /\ NewMovieDb
    /\ mode = NewSelectorValue.mode
    /\ tvId = NewSelectorValue.tvId
    /\ seasonNumber = NewSelectorValue.seasonNumber
    /\ tvSeason = NewSelectorValue.tvSeason
    /\ query = NewSelectorValue.query
    /\ tvShowSelections = NewSelectorValue.tvShowSelections
    /\ pc = "idle"
    /\ \E q \in SeqsUpTo(ExtractTokens, MaxTokens) :
          args = [NoArgs EXCEPT !.query = q]
    /\ loc = NoLoc
    /\ outcome = [kind |-> "none"]
    /\ msgs = {}
    /\ line = NoLine
    /\ NoMain
    /\ files = <<>>

\* the function is called on the query
DoExtract ==
    /\ pc = "idle"
    /\ outcome' = [kind |-> "extracted",
                   hints |-> extractTvSeasonEpisodeFromQuery(args.query)]
    /\ pc' = "finished"
    /\ UNCHANGED <<cache, now, last, mode, tvId, seasonNumber, tvSeason, query,
                   tvShowSelections, args, loc, msgs, line, files, mainVars>>

ExtractSpec == ExtractInit /\ [][DoExtract]_vars

\* what each token of ExtractTokens says, read off its text: the number after
\* its s, the number after its e, and its value as a year of four digits
TokenSays(tok) ==
    CASE tok = T_s02e05 -> [season |-> 2, episode |-> 5, year |-> 0]
      [] tok = T_s03    -> [season |-> 3, episode |-> 0, year |-> 0]
      [] tok = T_e07    -> [season |-> 0, episode |-> 7, year |-> 0]
      [] tok = T_2020   -> [season |-> 0, episode |-> 0, year |-> 2020]
      [] OTHER          -> [season |-> 0, episode |-> 0, year |-> 0]

\* the value of field fld given by the first token of q that has one
FirstSaid(q, fld) ==
    LET at == {i \in 1..Len(q) : TokenSays(q[i])[fld] # 0}
    IN  IF at = {} THEN 0
        ELSE TokenSays(q[CHOOSE i \in at : \A j \in at : i <= j])[fld]

Extracted == pc = "finished" /\ outcome.kind = "extracted"

\* C11: for every query, season, episode and year are each the value of the
\* first token that gives a non-zero value for the field, 0 if none does; one
\* token can set season and episode ("show name s02e05" gives season 2,
\* episode 5, year 0, residual "show name"); a later token with a season
\* leaves the season as it is and is not in the residual.
C11_HintValues ==
    Extracted =>
        /\ outcome.hints.season = FirstSaid(args.query, "season")
        /\ outcome.hints.episode = FirstSaid(args.query, "episode")
        /\ outcome.hints.year = FirstSaid(args.query, "year")
        /\ args.query = <<T_show, T_name, T_s02e05>>
              => outcome.hints = [query |-> <<T_show, T_name>>, season |-> 2,
                                  episode |-> 5, year |-> 0]
        /\ \A i \in 1..Len(args.query) :
              TokenSays(args.query[i]).season # 0
                  => \A j \in 1..Len(outcome.hints.query) :
                        outcome.hints.query[j] # args.query[i]

\* C11 witness: two tokens give a season, the first one's is kept and the
\* second is not in the residual
C11_Witness ==
    /\ Extracted
    /\ args.query = <<T_s02e05, T_show, T_s03>>
    /\ outcome.hints.season = 2
    /\ outcome.hints.query = <<T_show>>

\* the tokens of q that give no season, no episode and no year, in order
KeptTokens(q) ==
    SelectSeq(q, LAMBDA tok : /\ TokenSays(tok).season = 0
                             /\ TokenSays(tok).episode = 0
                             /\ TokenSays(tok).year = 0)

\* C12 as stated: the residual is the tokens that gave no season, episode or
\* year value, in their order; a number of four digits outside
\* [1900, CurrentYear + 1] gives no year and is kept.
C12_AsStated ==
    Extracted => outcome.hints.query = KeptTokens(args.query)

----------------------------------------------------------------------------
(* commonDirWords applied to a file of a sorted list of absolute paths *)

\* the characters of the paths, in byte order
Alphabet ==
    <<" ", "(", ")", "-", ".", "/", "0", "1", "2", "3", "4", "5", "6", "7", "8", "9",
      "M", "N", "S", "T",
      "a", "b", "c", "d", "e", "f", "g", "h", "i", "j", "k", "l", "m",
      "n", "o", "p", "q", "r", "s", "t", "u", "v", "w", "x", "y", "z">>

Ord(c) == CHOOSE i \in 1..Len(Alphabet) : Alphabet[i] = c

\* a < b for Go strings: byte by byte, a proper prefix is smaller
RECURSIVE StrLess(_, _)
StrLess(a, b) ==
    IF b = <<>> THEN FALSE
    ELSE IF a = <<>> THEN TRUE
    ELSE IF Head(a) = Head(b) THEN StrLess(Tail(a), Tail(b))
    ELSE Ord(Head(a)) < Ord(Head(b))

RECURSIVE InsertSorted(_, _)
InsertSorted(x, s) ==
    IF s = <<>> THEN <<x>>
    ELSE IF StrLess(Head(s), x) THEN <<Head(s)>> \o InsertSorted(x, Tail(s))
    ELSE <<x>> \o s

\* sort.Strings: the slice in increasing order, equal strings kept
RECURSIVE SortStrings(_)
SortStrings(s) ==
    IF s = <<>> THEN <<>> ELSE InsertSorted(Head(s), SortStrings(Tail(s)))

\* the loop of sortUniq over the sorted slice: words[i] is kept when i = 0 or
\* it differs from words[i-1]
dropRepeats(words) ==
    LET keep == {i \in 1..Len(words) : i = 1 \/ words[i] # words[i - 1]}
        F[i \in 0..Len(words)] ==
            IF i = 0 THEN <<>>
            ELSE IF i \in keep THEN Append(F[i - 1], words[i]) ELSE F[i - 1]
    IN  F[Len(words)]

\* sortUniq(words): sort.Strings sorts the caller's slice where it lies, so
\* the call leaves words sorted; ret is what it returns
sortUniq(words) ==
    [words |-> SortStrings(words), ret |-> dropRepeats(SortStrings(words))]

\* sort.SearchStrings(b, el): binary search for the least index (from 0) whose
\* string is >= el, Len(b) if there is none
RECURSIVE searchFrom(_, _, _, _)
searchFrom(b, el, i, j) ==
    IF i >= j THEN i
    ELSE LET h == (i + j) \div 2
         IN  IF StrLess(b[h + 1], el) THEN searchFrom(b, el, h + 1, j)
             ELSE searchFrom(b, el, i, h)

SearchStrings(b, el) == searchFrom(b, el, 0, Len(b))

\* mutant: an element is taken as found wherever the search stops inside b
sortedIntersect_NoCompare(a, b) ==
    SelectSeq(a, LAMBDA el : SearchStrings(b, el) < Len(b))

sortedIntersect(a, b) ==
    SelectSeq(a, LAMBDA el :
        LET idx == SearchStrings(b, el)
        IN  idx < Len(b) /\ b[idx + 1] = el)

stringSliceContains(s, a) == \E i \in 1..Len(s) : s[i] = a

\* strings.HasPrefix
HasPrefix(s, prefix) ==
    Len(s) >= Len(prefix) /\ SubSeq(s, 1, Len(prefix)) = prefix

\* the index of the last "/" of a path, 0 if it has none
LastSlash(p) ==
    LET at == {i \in 1..Len(p) : p[i] = "/"}
    IN  IF at = {} THEN 0 ELSE CHOOSE i \in at : \A j \in at : j <= i

\* filepath.Dir of a clean absolute path, which filepath.Abs leaves as it is
Dir(p) == IF LastSlash(p) <= 1 THEN <<"/">> ELSE SubSeq(p, 1, LastSlash(p) - 1)

\* filepath.Base of a path that does not end in "/"
Base(p) == SubSeq(p, LastSlash(p) + 1, Len(p))

\* filepath.Ext: from the last "." of the last element, empty without one
Ext(p) ==
    LET at == {i \in (LastSlash(p) + 1)..Len(p) : p[i] = "."}
    IN  IF at = {} THEN <<>>
        ELSE SubSeq(p, CHOOSE i \in at : \A j \in at : j <= i, Len(p))

fNameSansExtension(fPath) == Base(SubSeq(fPath, 1, Len(fPath) - Len(Ext(fPath))))

IsAlnum(c) == Ord(c) >= Ord("0")

\* queryReg.ReplaceAllString(s, " "): every run of characters that are not
\* letters or digits becomes one space
RECURSIVE replaceRuns(_, _)
replaceRuns(s, inRun) ==
    IF s = <<>> THEN <<>>
    ELSE IF IsAlnum(Head(s)) THEN <<Head(s)>> \o replaceRuns(Tail(s), FALSE)
    ELSE IF inRun THEN replaceRuns(Tail(s), TRUE)
    ELSE <<" ">> \o replaceRuns(Tail(s), TRUE)

ToLowerChar(c) ==
    CASE c = "M" -> "m" [] c = "N" -> "n" [] c = "S" -> "s" [] c = "T" -> "t"
      [] OTHER -> c

\* strings.ToLower
ToLower(s) == [i \in 1..Len(s) |-> ToLowerChar(s[i])]

validSingleCharTokens ==
    <<<<"a">>, <<"i">>, <<"0">>, <<"1">>, <<"2">>, <<"3">>, <<"4">>, <<"5">>,
      <<"6">>, <<"7">>, <<"8">>, <<"9">>>>

\* mutant: every word of one character is dropped
isQueryToken_NoSingleChar(token, stopWords) ==
    /\ ~stringSliceContains(stopWords, token)
    /\ Len(token) # 1

isQueryToken(token, stopWords) ==
    /\ ~stringSliceContains(stopWords, token)
    /\ ~(Len(token) = 1 /\ ~stringSliceContains(validSingleCharTokens, token))

buildQueryTokens(movieStr, stopWords) ==
    SelectSeq(Fields(ToLower(replaceRuns(movieStr, FALSE))),
              LAMBDA word : isQueryToken(word, stopWords))

\* peerPaths: the name of the file, then the name of every path of the list
\* that starts with the characters of the file's directory
peerPathsOf(moviePath, movieList) ==
    <<fNameSansExtension(moviePath)>>
        \o [i \in 1..Len(SelectSeq(movieList,
                                   LAMBDA p : HasPrefix(p, Dir(moviePath)))) |->
               fNameSansExtension(
                   SelectSeq(movieList,
                             LAMBDA p : HasPrefix(p, Dir(moviePath)))[i])]

\* the loop over peerPaths[1:]: common after peer i, left empty once empty
RECURSIVE intersectPeers(_, _, _, _)
intersectPeers(common, peerPaths, i, stopWords) ==
    IF i > Len(peerPaths) THEN [common |-> common, early |-> FALSE]
    ELSE LET next == sortedIntersect(
                         common,
                         sortUniq(buildQueryTokens(peerPaths[i], stopWords)).ret)
         IN  IF next = <<>> THEN [common |-> next, early |-> TRUE]
             ELSE intersectPeers(next, peerPaths, i + 1, stopWords)

\* the tail of commonDirWords: the tokens of the file's slice, as sortUniq
\* left it, that are in common
commonDirResult(met, originalQueryTokens) ==
    IF met.early THEN met.common
    ELSE SelectSeq(originalQueryTokens,
                   LAMBDA el : stringSliceContains(met.common, el))

commonDirSorted(su, peerPaths, stopWords) ==
    commonDirResult(intersectPeers(su.ret, peerPaths, 2, stopWords), su.words)

commonDirPeers(peerPaths, stopWords) ==
    commonDirSorted(sortUniq(buildQueryTokens(peerPaths[1], stopWords)),
                    peerPaths, stopWords)

commonDirWords(moviePath, movieList, stopWords) ==
    commonDirPeers(peerPathsOf(moviePath, movieList), stopWords)

T_tv == <<"t", "v">>

\* stopWords: one of defaultStopWords
StopWords == <<T_tv>>

D_s == <<"/", "m", "/", "s">>
D_s2 == <<"/", "m", "/", "s", "2">>
D_sx == <<"/", "m", "/", "s", "/", "x">>
D_t == <<"/", "m", "/", "t">>

Ext_mkv == <<".", "m", "k", "v">>

RECURSIVE Dotted(_)
Dotted(toks) ==
    IF toks = <<>> THEN <<>>
    ELSE IF Len(toks) = 1 THEN Head(toks)
    ELSE Head(toks) \o <<".">> \o Dotted(Tail(toks))

PathOf(dir, base) == dir \o <<"/">> \o base \o Ext_mkv

\* /m/s/show.name.tv.s01e01.mkv
P_s_show_name_s01e01 == PathOf(D_s, Dotted(<<T_show, T_name, T_tv, T_s01e01>>))
\* /m/s/Show-Name.s02e01.mkv
P_s_Show_Name_s02e01 ==
    PathOf(D_s, <<"S", "h", "o", "w", "-", "N", "a", "m", "e", ".">> \o T_s02e01)
\* /m/s/film.2020.mkv
P_s_film_2020 == PathOf(D_s, Dotted(<<T_film, T_2020>>))
\* /m/s/x/name.s01e01.mkv
P_sx_name_s01e01 == PathOf(D_sx, Dotted(<<T_name, T_s01e01>>))
\* /m/s2/show.film.mkv
P_s2_show_film == PathOf(D_s2, Dotted(<<T_show, T_film>>))
\* /m/t/show.x.show.a.mkv
P_t_show_x_show_a == PathOf(D_t, Dotted(<<T_show, <<"x">>, T_show, T_a>>))

MoviePaths ==
    {P_s_show_name_s01e01, P_s_Show_Name_s02e01, P_s_film_2020,
     P_sx_name_s01e01, P_s2_show_film, P_t_show_x_show_a}

\* a set of paths as lsMovies returns it
RECURSIVE SortedList(_)
SortedList(S) ==
    IF S = {} THEN <<>>
    ELSE LET least == CHOOSE p \in S : \A o \in S \ {p} : StrLess(p, o)
         IN  <<least>> \o SortedList(S \ {least})

\* main has listed the movies and taken one of them
CommonInit ==
    /\ NewMovieDb
    /\ mode = NewSelectorValue.mode
    /\ tvId = NewSelectorValue.tvId
    /\ seasonNumber = NewSelectorValue.seasonNumber
    /\ tvSeason = NewSelectorValue.tvSeason
    /\ query = NewSelectorValue.query
    /\ tvShowSelections = NewSelectorValue.tvShowSelections
    /\ pc = "idle"
    /\ args = NoArgs
    /\ loc = NoLoc
    /\ msgs = {}
    /\ line = NoLine
    /\ NoMain
    /\ \E S \in SUBSET MoviePaths :
          /\ S # {}
          /\ files = SortedList(S)
          /\ \E p \in S : outcome = [kind |-> "listed", moviePath |-> p]

\* common, err := commonDirWords(moviePath, movieList, stopWords)
DoCommonDirWords ==
    /\ pc = "idle"
    /\ outcome.kind = "listed"
    /\ outcome' = [kind |-> "common", moviePath |-> outcome.moviePath,
                   common |-> commonDirWords(outcome.moviePath, files,
                                             StopWords)]
    /\ pc' = "finished"
    /\ UNCHANGED <<cache, now, last, mode, tvId, seasonNumber, tvSeason, query,
                   tvShowSelections, args, loc, msgs, line, files, mainVars>>

CommonSpec == CommonInit /\ [][DoCommonDirWords]_vars

Reduced == pc = "finished" /\ outcome.kind = "common"

\* the tokens of the file's own name, in the order they occur in it
OwnTokens == buildQueryTokens(fNameSansExtension(outcome.moviePath), StopWords)

Range(s) == {s[i] : i \in 1..Len(s)}

\* C13 as stated: a non-empty result of commonDirWords lists its tokens in the
\* order in which they occur in the tokens of the file's own name, not in
\* sorted order.
C13_AsStated ==
    Reduced /\ outcome.common # <<>> =>
        outcome.common =
            SelectSeq(OwnTokens, LAMBDA t : t \in Range(outcome.common))

\* the token set of the name of a path
TokenSet(p) == Range(buildQueryTokens(fNameSansExtension(p), StopWords))

\* the paths of the list whose names commonDirWords intersects
Taken == {p \in Range(files) : HasPrefix(p, Dir(outcome.moviePath))}

\* C14: the set of tokens commonDirWords returns is the tokens of the file's
\* name that are in the token set of every peer it intersects; when a peer
\* shares no token with what is left, the result is empty.
C14_IntersectionContent ==
    Reduced =>
        /\ Range(outcome.common) =
              {t \in TokenSet(outcome.moviePath) :
                  \A p \in Taken : t \in TokenSet(p)}
        /\ (\E p \in Taken : TokenSet(p) \cap TokenSet(outcome.moviePath) = {})
              => outcome.common = <<>>

\* C14 witness: a file with two peers, one of its tokens in both of them and
\* another in only one
C14_Witness ==
    /\ Reduced
    /\ outcome.moviePath = P_s_show_name_s01e01
    /\ Taken = {P_s_show_name_s01e01, P_s_Show_Name_s02e01, P_sx_name_s01e01}
    /\ Range(outcome.common) = {T_name}

\* C15 as stated: only the files whose directory is the file's directory take
\* part; the result is what the files of that directory alone give, whatever
\* lies in its subdirectories or in directories whose path starts alike.
C15_AsStated ==
    Reduced =>
        outcome.common =
            commonDirWords(outcome.moviePath,
                           SelectSeq(files, LAMBDA p :
                               Dir(p) = Dir(outcome.moviePath)),
                           StopWords)

----------------------------------------------------------------------------
(* The read loop of HandleQuery: what each line typed at the prompt does *)

\* the line read by the step, trimmed
Typed == TrimSpace(line')

\* the step ends the resolution of the file
Ends == pc = "prompt" /\ pc' # "prompt"

\* C16: a resolution of a file ends in exactly one of three outcomes, told
\* apart by their kind: a resolved record, quit (the line q) or skipped (the
\* line s); q and s always end it so, and are never taken as a selection or
\* as a typed query.
C16_TerminalOutcomes ==
    [][pc = "prompt" =>
          /\ Ends => outcome'.kind \in {"resolved", "quit", "skipped"}
          /\ Typed = <<"q">> <=> Ends /\ outcome'.kind = "quit"
          /\ Typed = <<"s">> <=> Ends /\ outcome'.kind = "skipped"
          /\ Ends /\ outcome'.kind = "resolved"
                => /\ Typed = <<>> \/ intRegMatch(Typed)
                   /\ outcome'.media \in Range(loc.results)
          /\ outcome'.kind = "quit" => pc' = "finished"
          /\ outcome'.kind \in {"resolved", "skipped"} => pc' = "idle"]_vars

\* C16 witness: a file has been skipped and another is still to come
C16_Witness ==
    /\ pc = "idle"
    /\ outcome.kind = "skipped"
    /\ TrimSpace(line) = <<"s">>
    /\ files # <<>>

\* the step reads the index k: the number k, or the empty line when k is the
\* default
Chose(k) == Typed = Itoa(k) \/ (Typed = <<>> /\ defaultSelection = k)

\* C17: an index k from 1 to the number of candidates ends the resolution in
\* Movie and ShowEpisode mode only, with the k-th candidate of the list at the
\* prompt; in Show mode it never ends it, so the record returned is a movie or
\* an episode and never a show.
C17_TerminalSelection ==
    [][pc = "prompt" =>
          /\ \A k \in 1..numResults :
                Chose(k) =>
                    IF mode \in {movieSelector, tvSeasonEpisodeSelector}
                    THEN Ends /\ outcome' = Resolved(loc.results[k])
                    ELSE ~Ends
          /\ outcome'.kind = "resolved"
                => /\ outcome'.media.type \in {"movie", "tv_episode"}
                   /\ mode # tvSelector
                   /\ \E k \in 1..numResults : Chose(k)]_vars

\* C17 witness: the second episode of the list has been chosen by its number
C17_Witness ==
    /\ pc = "idle"
    /\ outcome.kind = "resolved"
    /\ outcome.media.type = "tv_episode"
    /\ outcome.media.EpisonNumber = 2
    /\ TrimSpace(line) = <<"2">>

\* the index the empty line stands for: the episode of the query in
\* ShowEpisode mode when the list has that many candidates, 1 otherwise
DefaultIndex ==
    IF mode = tvSeasonEpisodeSelector
          /\ 1 <= Hints.episode /\ Hints.episode <= numResults
    THEN Hints.episode ELSE 1

\* C18: the empty line selects the candidate at the default index: in
\* ShowEpisode mode the episode of the query when it is from 1 to the number
\* of candidates and the first otherwise, in Movie and Show mode the first;
\* with no candidate it selects nothing and the prompt comes again.
C18_DefaultIndex ==
    [][pc = "prompt" /\ Typed = <<>> =>
          IF numResults = 0
          THEN /\ ~Ends
               /\ msgs' = {"Please select one of the listed options."}
               /\ UNCHANGED <<mode, tvId, seasonNumber, tvSeason, query,
                              tvShowSelections, args, loc, cache, now>>
          ELSE CASE mode = tvSeasonEpisodeSelector ->
                      outcome' = Resolved(loc.results[DefaultIndex])
                 [] mode = movieSelector ->
                      outcome' = Resolved(loc.results[1])
                 [] mode = tvSelector ->
                      /\ ~Ends
                      /\ Hints.season > 0
                            => \/ BindsAndLists(loc.results[1].Id)
                               \/ msgs' = {"Invalid tv season selection"}]_vars

\* C18 witness: the query said episode 2 and the empty line has taken the
\* second episode of the list
C18_Witness ==
    /\ pc = "idle"
    /\ outcome.kind = "resolved"
    /\ outcome.media.type = "tv_episode"
    /\ outcome.media.EpisonNumber = 2
    /\ TrimSpace(line) = <<>>

\* the pages of the searches the step asked the catalog for
PagesAsked ==
    {last'[i].url.page :
        i \in {j \in 1..Len(last') :
                  last'[j].url.path \in {"search/movie", "search/tv"}}}

\* C19: the line p presents the same query again, typed or not as it was, at
\* the next page when the prompt's page is below the number of pages reported
\* and at page 1 otherwise, and is never taken as a typed query; every page
\* asked of the catalog is 1 or at most the number of pages last reported.
C19_Pagination ==
    [][/\ pc = "prompt" /\ Typed = <<"p">>
          => /\ pc' = "prompt"
             /\ outcome' = outcome
             /\ args'.query = args.query
             /\ args'.manual = args.manual
             /\ args'.common = args.common
             /\ args'.page = IF args.page < loc.totalPages
                             THEN args.page + 1 ELSE 1
             /\ PagesAsked \subseteq {args'.page}
       /\ \A pg \in PagesAsked :
             pg = 1 \/ (pc = "prompt" /\ 1 < pg /\ pg <= loc.totalPages)]_vars

\* C19 witness: p on the last of two pages has brought the first page back
C19_Witness ==
    /\ pc = "prompt"
    /\ TrimSpace(line) = <<"p">>
    /\ loc.totalPages = 2
    /\ args.page = 1
    /\ Len(last) = 1 /\ ~last[1].remote

\* the line read by the step is a text: not empty, none of q, s, p, h, and not
\* all digits
TypedText ==
    /\ line' # EndOfInput
    /\ Typed # <<>>
    /\ Typed \notin {<<"q">>, <<"s">>, <<"p">>, <<"h">>}
    /\ \E i \in 1..Len(Typed) : Typed[i] \notin DigitSet

\* C20: a typed text starts the resolution of the same file again with the
\* text as the query, at page 1, flagged as typed; the flag stays set through
\* the later pages and re-entries of the query, and while it is set the query
\* searched is the residual of the typed text, never the common tokens.
C20_ManualRequery ==
    [][pc = "prompt" =>
          /\ TypedText
                => /\ pc' = "prompt"
                   /\ args' = [query |-> Fields(Typed), manual |-> TRUE,
                               common |-> args.common, page |-> 1]
                   /\ files' = files
                   /\ outcome' = outcome
          /\ args.manual /\ pc' = "prompt"
                => /\ args'.manual
                   /\ ~TypedText => args'.query = args.query
          /\ args'.manual /\ pc' = "prompt"
                => loc'.myQuery =
                       extractTvSeasonEpisodeFromQuery(args'.query).query]_vars

\* C20 witness: a typed query with another name found a show held, fell back
\* to Show mode and searched its own residual although the directory has
\* common tokens
C20_Witness ==
    /\ pc = "prompt"
    /\ args.manual
    /\ args.common # <<>>
    /\ Hints.season > 0
    /\ loc.entry.mode = tvSeasonEpisodeSelector
    /\ loc.entry.query # Hints.query
    /\ mode = tvSelector
    /\ loc.myQuery = Hints.query
    /\ loc.myQuery # args.common

\* the line read by the step is a number that is no index of the list
TypedOutOfRange ==
    /\ intRegMatch(Typed)
    /\ \A k \in 1..numResults : Typed # Itoa(k)

\* the line read by the step is an index of a list of shows, the query giving
\* no season
TypedShowWithoutSeason ==
    /\ mode = tvSelector
    /\ Hints.season = 0
    /\ \E k \in 1..numResults : Chose(k)

\* C21: the line h, a number that is no index of the list (0, or any number
\* when the list is empty) and an index of a list of shows when the query
\* gave no season each print a message and prompt again for the same list:
\* no catalog call, the mode, show, season, episodes and remembered shows as
\* they were, and the line not taken as a query.
C21_Reprompts ==
    [][pc = "prompt"
          /\ (Typed = <<"h">> \/ TypedOutOfRange \/ TypedShowWithoutSeason)
          => /\ pc' = "prompt"
             /\ msgs' # {}
             /\ last' = <<>>
             /\ UNCHANGED <<cache, mode, tvId, seasonNumber, tvSeason, query,
                            tvShowSelections, args, loc, outcome, files, mainVars>>]_vars

\* C21 witness: a show of the list was chosen for a query with an episode and
\* no season, and the prompt has come again
C21_Witness ==
    /\ pc = "prompt"
    /\ mode = tvSelector
    /\ numResults > 0
    /\ Hints.season = 0 /\ Hints.episode > 0
    /\ TrimSpace(line) = <<"2">>
    /\ msgs = {"Unable to extract season number from query string."}

\* the searches among the calls of the step
SearchesMade ==
    {i \in 1..Len(last') : last'[i].url.path \in {"search/movie", "search/tv"}}

\* the step made a search that returned an error
SearchFailed ==
    /\ pc' = "prompt"
    /\ SearchesMade # {}
    /\ msgs' \cap {"Error searching movies", "Error searching tv shows"} # {}

\* C22 as stated: when a movie or show search fails, the step shows a message
\* and presents no candidate, having made one search call and no more; the
\* resolution does not end by it, and the prompt is there for a new query, a
\* skip or a quit.
C22_AsStated ==
    [][/\ Cardinality(SearchesMade) <= 1
       /\ SearchFailed
             => /\ loc'.results = <<>>
                /\ "No results!" \in msgs'
                /\ outcome'.kind = "none"]_vars

----------------------------------------------------------------------------
(* GetQuery applied to a file of the input directory *)

\* strings.TrimPrefix
TrimPrefix(str, prefix) ==
    IF HasPrefix(str, prefix) THEN SubSeq(str, Len(prefix) + 1, Len(str))
    ELSE str

\* buildQuery: the tokens joined by spaces
buildQuery(movieStr, stopWords) == Join(buildQueryTokens(movieStr, stopWords))

\* the residual extractTvSeasonEpisodeFromQuery leaves of a query string
testQueryOf(myQuery) == extractTvSeasonEpisodeFromQuery(Fields(myQuery)).query

\* mutant: the path is used when the query of the name is empty, not when its
\* residual is
getQueryFrom_TestsQuery(name, inDir, stopWords, myQuery) ==
    IF myQuery = <<>>
    THEN buildQuery(TrimPrefix(name, inDir \o <<"/">>), stopWords)
    ELSE myQuery

\* GetQuery after myQuery was built from the file name
getQueryFrom(name, inDir, stopWords, myQuery) ==
    IF testQueryOf(myQuery) = <<>>
    THEN buildQuery(TrimPrefix(name, inDir \o <<"/">>), stopWords)
    ELSE myQuery

getQueryOfName(name, inDir, stopWords) ==
    getQueryFrom(name, inDir, stopWords, buildQuery(Base(name), stopWords))

GetQuery(moviePath, inDir, stopWords) ==
    getQueryOfName(SubSeq(moviePath, 1, Len(moviePath) - Len(Ext(moviePath))),
                   inDir, stopWords)

T_movie == <<"m", "o", "v", "i", "e">>
T_title == <<"t", "i", "t", "l", "e">>

D_m == <<"/", "m">>
D_show == <<"/", "m", "/", "s", "h", "o", "w">>
D_tv == <<"/", "m", "/", "t", "v">>

\* /m/Movie.Title.2020.mkv
P_Movie_Title_2020 ==
    PathOf(D_m, <<"M", "o", "v", "i", "e", ".", "T", "i", "t", "l", "e", ".">>
                    \o T_2020)
\* /m/show/s01e02.mkv
P_show_s01e02 == PathOf(D_show, <<"s", "0", "1", "e", "0", "2">>)
\* /m/show/2020.mkv
P_show_2020 == PathOf(D_show, T_2020)
\* /m/tv/s01e01.mkv
P_tv_s01e01 == PathOf(D_tv, T_s01e01)
\* /m/s01e01.mkv
P_s01e01 == PathOf(D_m, T_s01e01)

QueryPaths ==
    {P_Movie_Title_2020, P_show_s01e02, P_show_2020, P_tv_s01e01, P_s01e01,
     P_s_show_name_s01e01, P_sx_name_s01e01, P_s_film_2020}

\* the directories -in can name
InDirs == {D_m, D_s, D_show}

\* the lists -set-stop-words can give
StopWordLists == {<<>>, <<T_tv>>, <<T_hd>>, <<T_show>>, <<T_tv, T_film>>}

\* main has listed the files of inDir and taken one of them
QueryInit ==
    /\ NewMovieDb
    /\ mode = NewSelectorValue.mode
    /\ tvId = NewSelectorValue.tvId
    /\ seasonNumber = NewSelectorValue.seasonNumber
    /\ tvSeason = NewSelectorValue.tvSeason
    /\ query = NewSelectorValue.query
    /\ tvShowSelections = NewSelectorValue.tvShowSelections
    /\ pc = "idle"
    /\ args = NoArgs
    /\ loc = NoLoc
    /\ msgs = {}
    /\ line = NoLine
    /\ NoMain
    /\ files = <<>>
    /\ \E p \in QueryPaths, d \in InDirs, sw \in StopWordLists :
          /\ HasPrefix(p, d \o <<"/">>)
          /\ outcome = [kind |-> "listed", moviePath |-> p, inDir |-> d,
                        stopWords |-> sw]

\* myQuery := GetQuery(moviePath, s.inDir, s.stopWords)
DoGetQuery ==
    /\ pc = "idle"
    /\ outcome.kind = "listed"
    /\ outcome' = [outcome EXCEPT !.kind = "query"]
                     @@ [myQuery |-> GetQuery(outcome.moviePath, outcome.inDir,
                                              outcome.stopWords)]
    /\ pc' = "finished"
    /\ UNCHANGED <<cache, now, last, mode, tvId, seasonNumber, tvSeason, query,
                   tvShowSelections, args, loc, msgs, line, files, mainVars>>

QuerySpec == QueryInit /\ [][DoGetQuery]_vars

Queried == pc = "finished" /\ outcome.kind = "query"

\* the tokens of the file's name without directories and extension
NameTokens ==
    buildQueryTokens(fNameSansExtension(outcome.moviePath), outcome.stopWords)

\* the tokens of the file's path below inDir, without the extension
PathTokens ==
    buildQueryTokens(
        SubSeq(outcome.moviePath, Len(outcome.inDir) + 2,
               Len(outcome.moviePath) - Len(Ext(outcome.moviePath))),
        outcome.stopWords)

\* C23: the query is the tokens of the file's base name without its extension
\* (Movie.Title.2020.mkv gives residual "movie title", year 2020, season 0,
\* episode 0); it is the tokens of the whole path below the input directory
\* exactly when hint extraction leaves nothing of the base-name query.
C23_WorkingQuery ==
    Queried =>
        /\ Fields(outcome.myQuery) =
              IF extractTvSeasonEpisodeFromQuery(NameTokens).query = <<>>
              THEN PathTokens ELSE NameTokens
        /\ outcome.moviePath = P_Movie_Title_2020
              => extractTvSeasonEpisodeFromQuery(Fields(outcome.myQuery)) =
                    [query |-> <<T_movie, T_title>>, season |-> 0,
                     episode |-> 0, year |-> 2020]

\* C23 witness: the name of /m/show/s01e02.mkv leaves no residual and the
\* query is built from show/s01e02
C23_Witness ==
    /\ Queried
    /\ outcome.moviePath = P_show_s01e02
    /\ outcome.inDir = D_m
    /\ outcome.stopWords = <<T_tv>>
    /\ Fields(outcome.myQuery) = <<T_show, <<"s", "0", "1", "e", "0", "2">>>>

----------------------------------------------------------------------------
(* buildQueryTokens applied to any short string *)

MaxChars == 4

\* the characters of the strings
TokenChars == {"a", "x", "S", "1", "t", "v", ".", " "}

TokenInit ==
    /\ NewMovieDb
    /\ mode = NewSelectorValue.mode
    /\ tvId = NewSelectorValue.tvId
    /\ seasonNumber = NewSelectorValue.seasonNumber
    /\ tvSeason = NewSelectorValue.tvSeason
    /\ query = NewSelectorValue.query
    /\ tvShowSelections = NewSelectorValue.tvShowSelections
    /\ pc = "idle"
    /\ args = NoArgs
    /\ loc = NoLoc
    /\ msgs = {}
    /\ line = NoLine
    /\ NoMain
    /\ files = <<>>
    /\ \E str \in SeqsUpTo(TokenChars, MaxChars) :
          outcome = [kind |-> "string", movieStr |-> str]

\* the function is called on the string
DoBuildQueryTokens ==
    /\ pc = "idle"
    /\ outcome.kind = "string"
    /\ outcome' = [kind |-> "tokens", movieStr |-> outcome.movieStr,
                   words |-> buildQueryTokens(outcome.movieStr, StopWords)]
    /\ pc' = "finished"
    /\ UNCHANGED <<cache, now, last, mode, tvId, seasonNumber, tvSeason, query,
                   tvShowSelections, args, loc, msgs, line, files, mainVars>>

TokenSpec == TokenInit /\ [][DoBuildQueryTokens]_vars

Tokenized == pc = "finished" /\ outcome.kind = "tokens"

LetterOrDigit(c) == c \in {"a", "x", "S", "1", "t", "v"}

Lowered(c) == IF c = "S" THEN "s" ELSE c

\* the positions of str where a word starts
WordStarts(str) ==
    {i \in 1..Len(str) :
        LetterOrDigit(str[i]) /\ (i = 1 \/ ~LetterOrDigit(str[i - 1]))}

\* the word of str that starts at i, in lower case
WordAt(str, i) ==
    LET stop == CHOOSE j \in i..Len(str) :
                    /\ \A k \in i..j : LetterOrDigit(str[k])
                    /\ j = Len(str) \/ ~LetterOrDigit(str[j + 1])
    IN  [k \in 1..(stop - i + 1) |-> Lowered(str[i + k - 1])]

\* the word is kept: no stop word, and of one character only a, i or a digit
KeptWord(w) ==
    /\ w # T_tv
    /\ Len(w) = 1 => w[1] \in {"a", "i"} \cup DigitSet

\* the kept words of str from position i on, in order
RECURSIVE KeptWordsFrom(_, _)
KeptWordsFrom(str, i) ==
    IF i > Len(str) THEN <<>>
    ELSE IF i \in WordStarts(str) /\ KeptWord(WordAt(str, i))
    THEN <<WordAt(str, i)>> \o KeptWordsFrom(str, i + 1)
    ELSE KeptWordsFrom(str, i + 1)

\* C25: buildQueryTokens gives the words of letters and digits of the string,
\* in lower case, split at every run of other characters, in their order and
\* with repeats, without the stop words and without the words of one
\* character other than a, i and the digits; the empty string gives none.
C25_Tokenizer ==
    Tokenized =>
        /\ outcome.words = KeptWordsFrom(outcome.movieStr, 1)
        /\ outcome.movieStr = <<>> => outcome.words = <<>>

\* C25 witness: "a.x " gives a alone, the word x of one character dropped
C25_Witness ==
    /\ Tokenized
    /\ outcome.movieStr = <<"a", ".", "x", " ">>
    /\ outcome.words = <<<<"a">>>>

----------------------------------------------------------------------------
(* main: the loop over the listed files, with the files on disk and the
   manifest; what Selector.Handle returns for a file is any of its outcomes *)

\* %02d
Pad2(n) == IF n < 10 THEN <<"0">> \o Itoa(n) ELSE Itoa(n)

\* strings.Split(date, "-")[0]
RECURSIVE YearOf(_)
YearOf(date) ==
    IF date = <<>> \/ Head(date) = "-" THEN <<>>
    ELSE <<Head(date)>> \o YearOf(Tail(date))

\* "%s (%s)"
NameAndYear(name, date) == name \o <<" ", "(">> \o YearOf(date) \o <<")">>

\* Movie.GetPath and TvEpisode.GetPath
GetPath(m) ==
    IF m.type = "movie"
    THEN NameAndYear(m.Title, m.ReleaseDate) \o <<"/">>
             \o NameAndYear(m.Title, m.ReleaseDate)
    ELSE NameAndYear(m.TvName, m.FirstAirDate) \o <<"/">>
             \o NameAndYear(m.TvName, m.FirstAirDate)
             \o <<" ", "S">> \o Pad2(m.SeasonNumber)
             \o <<"E">> \o Pad2(m.EpisonNumber)

buildOutFile(originalPath, outDir, media) ==
    outDir \o <<"/">> \o GetPath(media) \o ToLower(Ext(originalPath))

\* os.SameFile, and DeepCompare when the inodes differ
SameFile(d, file1, file2) ==
    d[file1].ino = d[file2].ino \/ d[file1].data = d[file2].data

\* os.Link(src, dst): dst is one more name of the file of src
Linked(d, src, dst) ==
    [q \in DOMAIN d \cup {dst} |-> IF q = dst THEN d[src] ELSE d[q]]

\* the number of a new file
FreshIno(d) ==
    1 + (CHOOSE n \in {0} \cup {d[q].ino : q \in DOMAIN d} :
            \A q \in DOMAIN d : d[q].ino <= n)

\* copyFileContents(src, dst) having written data: os.Create makes dst or
\* empties the file it names, under all of that file's names
Written(d, dst, data) ==
    IF dst \in DOMAIN d
    THEN [q \in DOMAIN d |->
             IF d[q].ino = d[dst].ino THEN [ino |-> d[q].ino, data |-> data]
             ELSE d[q]]
    ELSE [q \in DOMAIN d \cup {dst} |->
             IF q = dst THEN [ino |-> FreshIno(d), data |-> data] ELSE d[q]]

\* what is in a file whose copy broke off
PartialData == "partial"

\* CopyFile(src, dst); linkOk: os.Link can link, copyOk: the copy goes through
CopyFile(d, src, dst, linkOk, copyOk) ==
    IF src \notin DOMAIN d THEN [disk |-> d, err |-> TRUE]
    ELSE IF dst \in DOMAIN d /\ d[dst].ino = d[src].ino
    THEN [disk |-> d, err |-> FALSE]
    ELSE IF dst \notin DOMAIN d /\ linkOk
    THEN [disk |-> Linked(d, src, dst), err |-> FALSE]
    ELSE IF copyOk
    THEN [disk |-> Written(d, dst, d[src].data), err |-> FALSE]
    ELSE [disk |-> Written(d, dst, PartialData), err |-> TRUE]

\* os.Remove(path)
Removed(d, path) == [q \in DOMAIN d \ {path} |-> d[q]]

ManifestEntry(moviePath, outFile, media) ==
    [InFile |-> moviePath, OutFile |-> outFile, MovieDbId |-> media.Id,
     Type |-> media.type]

\* how an iteration of the loop leaves the disk and the manifest, and whether
\* the loop goes on
Iteration(d, man, next, done) ==
    [disk |-> d, manifest |-> man, next |-> next, done |-> done]

\* lines 669-682: the entry is appended and the manifest written
PlaceEntry(d, man, moviePath, outFile, media, io) ==
    IF io = "manifest" THEN Iteration(d, man, "break", "failed")
    ELSE Iteration(d, Append(man, ManifestEntry(moviePath, outFile, media)),
                   "continue", "placed")

\* lines 659-665: with -mv the file is removed after CopyFile
PlaceMove(d, man, moviePath, outFile, media, io) ==
    IF flags.mv
    THEN IF io = "remove" THEN Iteration(d, man, "break", "failed")
         ELSE PlaceEntry(Removed(d, moviePath), man, moviePath, outFile,
                         media, io)
    ELSE PlaceEntry(d, man, moviePath, outFile, media, io)

\* lines 653-657: after CopyFile returned r
PlaceCopied(r, man, moviePath, outFile, media, io) ==
    IF r.err THEN Iteration(r.disk, man, "break", "failed")
    ELSE PlaceMove(r.disk, man, moviePath, outFile, media, io)

\* lines 640-657 with doCopy true
PlaceCopy(d, man, moviePath, outFile, media, yesConfirm, io) ==
    IF flags.dryRun THEN PlaceEntry(d, man, moviePath, outFile, media, io)
    ELSE IF flags.confirm /\ ~yesConfirm
    THEN Iteration(d, man, "continue", "declined")
    ELSE IF io = "mkdir" THEN Iteration(d, man, "break", "failed")
    ELSE PlaceCopied(CopyFile(d, moviePath, outFile,
                              io \notin {"link", "copy"}, io # "copy"),
                     man, moviePath, outFile, media, io)

\* lines 602-667: what main does with the file once outFile is built
Place(d, man, moviePath, outFile, media, yesOverwrite, yesConfirm, io) ==
    IF outFile = moviePath
    THEN PlaceCopy(d, man, moviePath, outFile, media, yesConfirm, io)
    ELSE IF outFile \in DOMAIN d
    THEN IF moviePath \notin DOMAIN d
         THEN Iteration(d, man, "break", "failed")
         ELSE IF SameFile(d, moviePath, outFile)
         THEN PlaceEntry(d, man, moviePath, outFile, media, io)
         ELSE IF yesOverwrite
         THEN PlaceCopy(d, man, moviePath, outFile, media, yesConfirm, io)
         ELSE Iteration(d, man, "continue", "declined")
    ELSE PlaceCopy(d, man, moviePath, outFile, media, yesConfirm, io)

\* lines 590-595
OutFileOf(moviePath, media) ==
    buildOutFile(moviePath,
                 IF media.type = "tv_episode" THEN flags.tvOutDir
                 ELSE flags.movieOutDir,
                 media)

\* lines 559-566: the manifest has the file as an in-file or an out-file
Seen(man, moviePath) ==
    \E i \in 1..Len(man) :
        man[i].InFile = moviePath \/ man[i].OutFile = moviePath

D_o == <<"/", "o">>
Date_2020 == <<"2", "0", "2", "0", "-", "0", "1", "-", "0", "2">>
Date_2019 == <<"2", "0", "1", "9", "-", "0", "3", "-", "0", "4">>

MovieA == [type |-> "movie", Id |-> 10, Title |-> <<"a">>,
           ReleaseDate |-> Date_2020]
EpisodeB == [type |-> "tv_episode", Id |-> 4212, TvName |-> <<"b">>,
             FirstAirDate |-> Date_2019, SeasonNumber |-> 1,
             EpisonNumber |-> 2]

\* the records Handle can return
Medias == {MovieA, EpisodeB}

\* /m/x.mkv, /m/y.mkv
P_x == PathOf(D_m, <<"x">>)
P_y == PathOf(D_m, <<"y">>)
\* /m/a (2020)/a (2020).mkv, /o/a (2020)/a (2020).mkv
P_m_a == buildOutFile(P_x, D_m, MovieA)
P_o_a == buildOutFile(P_x, D_o, MovieA)

OnDisk(ino, data) == [ino |-> ino, data |-> data]

\* the files at the start of a run
Disks ==
    { (P_x :> OnDisk(1, "x")),
      (P_m_a :> OnDisk(1, "x")),
      (P_x :> OnDisk(1, "x")) @@ (P_y :> OnDisk(2, "y")),
      (P_x :> OnDisk(1, "x")) @@ (P_m_a :> OnDisk(2, "y")),
      (P_x :> OnDisk(1, "x")) @@ (P_o_a :> OnDisk(2, "y")),
      (P_x :> OnDisk(1, "x")) @@ (P_o_a :> OnDisk(1, "x")) }

\* the manifests a run can start with
Manifests == {<<>>, <<ManifestEntry(P_y, P_o_a, MovieA)>>}

\* what can go wrong with the disk in an iteration
IoFaults == {"none", "link", "copy", "mkdir", "remove", "manifest"}

\* lsMovies(inDir, exts) on disk d
lsMovies(d, inDir) ==
    SortedList({q \in DOMAIN d :
                   HasPrefix(q, inDir \o <<"/">>) /\ Ext(q) = Ext_mkv})

\* main up to its loop, with -in /m
MainInit ==
    /\ NewMovieDb
    /\ mode = NewSelectorValue.mode
    /\ tvId = NewSelectorValue.tvId
    /\ seasonNumber = NewSelectorValue.seasonNumber
    /\ tvSeason = NewSelectorValue.tvSeason
    /\ query = NewSelectorValue.query
    /\ tvShowSelections = NewSelectorValue.tvShowSelections
    /\ pc = "idle"
    /\ args = NoArgs
    /\ loc = NoLoc
    /\ msgs = {}
    /\ line = NoLine
    /\ outcome = [kind |-> "none"]
    /\ \E mv \in BOOLEAN, dryRun \in BOOLEAN, confirm \in BOOLEAN,
          out \in {D_m, D_o} :
          flags = [mv |-> mv, dryRun |-> dryRun, confirm |-> confirm,
                   movieOutDir |-> out, tvOutDir |-> out]
    /\ disk \in Disks
    /\ manifest \in Manifests
    /\ files = lsMovies(disk, D_m)

\* lines 556-570: the file is in the manifest
MainSeen ==
    /\ pc = "idle"
    /\ files # <<>>
    /\ Seen(manifest, Head(files))
    /\ outcome' = [kind |-> "seen", moviePath |-> Head(files)]
    /\ files' = Tail(files)
    /\ UNCHANGED <<cache, now, last, mode, tvId, seasonNumber, tvSeason, query,
                   tvShowSelections, pc, args, loc, msgs, line, mainVars>>

\* lines 578-583: Handle returned the error quit
MainQuit ==
    /\ pc = "idle"
    /\ files # <<>>
    /\ ~Seen(manifest, Head(files))
    /\ outcome' = [kind |-> "quit", moviePath |-> Head(files)]
    /\ pc' = "finished"
    /\ UNCHANGED <<cache, now, last, mode, tvId, seasonNumber, tvSeason, query,
                   tvShowSelections, args, loc, msgs, line, files, mainVars>>

\* mutant: a skip ends the loop like a quit
MainSkip_Breaks ==
    /\ pc = "idle"
    /\ files # <<>>
    /\ ~Seen(manifest, Head(files))
    /\ outcome' = [kind |-> "skipped", moviePath |-> Head(files)]
    /\ pc' = "finished"
    /\ UNCHANGED <<cache, now, last, mode, tvId, seasonNumber, tvSeason, query,
                   tvShowSelections, args, loc, msgs, line, files, mainVars>>

\* lines 578-581: Handle returned the error skipped
MainSkip ==
    /\ pc = "idle"
    /\ files # <<>>
    /\ ~Seen(manifest, Head(files))
    /\ outcome' = [kind |-> "skipped", moviePath |-> Head(files)]
    /\ files' = Tail(files)
    /\ UNCHANGED <<cache, now, last, mode, tvId, seasonNumber, tvSeason, query,
                   tvShowSelections, pc, args, loc, msgs, line, mainVars>>

\* the iteration left r
Placed(r, moviePath, outFile, media) ==
    /\ disk' = r.disk
    /\ manifest' = r.manifest
    /\ pc' = IF r.next = "break" THEN "finished" ELSE "idle"
    /\ outcome' = [kind |-> "resolved", moviePath |-> moviePath,
                   outFile |-> outFile, media |-> media, done |-> r.done]

\* lines 578-684: Handle returned a record; the answers to the two questions
\* and the fault of the disk are inputs
MainResolved ==
    /\ pc = "idle"
    /\ files # <<>>
    /\ ~Seen(manifest, Head(files))
    /\ \E media \in Medias, yesOverwrite \in BOOLEAN, yesConfirm \in BOOLEAN,
          io \in IoFaults :
          Placed(Place(disk, manifest, Head(files),
                       OutFileOf(Head(files), media), media,
                       yesOverwrite, yesConfirm, io),
                 Head(files), OutFileOf(Head(files), media), media)
    /\ files' = Tail(files)
    /\ UNCHANGED <<cache, now, last, mode, tvId, seasonNumber, tvSeason, query,
                   tvShowSelections, args, loc, msgs, line, flags>>

\* the list is at its end
MainEnd ==
    /\ pc = "idle"
    /\ files = <<>>
    /\ pc' = "finished"
    /\ UNCHANGED <<cache, now, last, mode, tvId, seasonNumber, tvSeason, query,
                   tvShowSelections, args, loc, outcome, msgs, line, files,
                   mainVars>>

MainNext ==
    \/ MainSeen
    \/ MainQuit
    \/ MainSkip
    \/ MainResolved
    \/ MainEnd

MainSpec == MainInit /\ [][MainNext]_vars

\* the step handles a file for which Handle returned a record
ResolvedStep == pc = "idle" /\ outcome'.kind = "resolved" /\ files' # files

\* the data of the file handled, as it was before the step
DataBefore == disk[Head(files)].data

\* C24 as stated: in every run, also with -mv, the content of a resolved file
\* is never lost: the file handled is removed only when the destination is
\* another path that holds its content, and a file that is its own
\* destination is left in place.
C24_AsStated ==
    [][ResolvedStep =>
          /\ \E q \in DOMAIN disk' : disk'[q].data = DataBefore
          /\ Head(files) \notin DOMAIN disk'
                => /\ outcome'.outFile # Head(files)
                   /\ outcome'.outFile \in DOMAIN disk'
                   /\ disk'[outcome'.outFile].data = DataBefore
          /\ outcome'.outFile = Head(files)
                => Head(files) \in DOMAIN disk'
                      /\ disk'[Head(files)] = disk[Head(files)]
          /\ outcome'.done = "placed" /\ ~flags.dryRun
                => /\ outcome'.outFile \in DOMAIN disk'
                   /\ disk'[outcome'.outFile].data = DataBefore]_vars

\* the step handles a file for which Handle returned the error skipped
SkipStep == pc = "idle" /\ outcome'.kind = "skipped" /\ outcome' # outcome

\* C26: once a file's outcome is quit, no later file is handled and the
\* manifest and the disk stay as they are; a skipped file gets no manifest
\* entry and is neither copied nor moved, and the loop goes on with the rest
\* of the list; an entry is only ever written for the file being handled,
\* when Handle returned a record for it.
C26_Sentinels ==
    [][/\ outcome.kind = "quit"
            => outcome' = outcome /\ files' = files /\ manifest' = manifest
                  /\ disk' = disk
       /\ SkipStep
            => /\ manifest' = manifest
               /\ disk' = disk
               /\ ~Seen(manifest', Head(files))
               /\ files' = Tail(files)
               /\ pc' = "idle"
       /\ manifest' # manifest
            => /\ outcome'.kind = "resolved"
               /\ manifest' = Append(manifest,
                                     ManifestEntry(Head(files),
                                                   outcome'.outFile,
                                                   outcome'.media))]_vars

\* a file was skipped and the next file of the list, not in the manifest,
\* is up
C26_Witness ==
    /\ outcome.kind = "skipped"
    /\ pc = "idle"
    /\ files # <<>>
    /\ ~Seen(manifest, Head(files))
    /\ outcome.moviePath \in DOMAIN disk

----------------------------------------------------------------------------
(* the bound show across files *)

\* the running call began in ShowEpisode mode, and the season and the
\* residual of its query are the bound ones
ShowEpisodeSame ==
    /\ pc = "prompt"
    /\ loc.entry.mode = tvSeasonEpisodeSelector
    /\ Hints.season = loc.entry.seasonNumber
    /\ Hints.query = loc.entry.query

\* the call left the selector as it was, made no call to the catalog and
\* presents the episodes of the bound season
ShowEpisodeKept ==
    /\ Selector = loc.entry
    /\ loc.calls = <<>>
    /\ loc.results = loc.entry.tvSeason.Episodes

\* C27 as stated: a call that begins in ShowEpisode mode with the bound
\* residual query and the bound season number leaves the mode, the show, the
\* season and the episode list as they are and presents the episodes without
\* a call to the catalog.
C27_AsStated == ShowEpisodeSame => ShowEpisodeKept

\* C30 as stated: whenever the mode is ShowEpisode the bound season number is
\* at least 1.
C30_AsStated == mode = tvSeasonEpisodeSelector => seasonNumber >= 1

----------------------------------------------------------------------------
(* the year of a search and the cache *)

\* the step is a search that returned a body
SearchAnswered ==
    /\ IsCallStep
    /\ last'[1].url.path \in {"search/movie", "search/tv"}
    /\ ~last'[1].err

\* C28 as stated: the body a search with year filter y returns was fetched
\* by a request with the year filter y, also when it comes from the cache.
C28_AsStated ==
    [][SearchAnswered => last'[1].body.req.year = last'[1].url.year]_vars

----------------------------------------------------------------------------
(* the end of the input *)

\* C29 as stated: when a read of the line fails while a file waits for a
\* selection, the resolution of the file ends with an outcome; it does not
\* go back to the prompt.
C29_AsStated ==
    [][pc = "prompt" /\ line' = EndOfInput
          => pc' # "prompt" /\ outcome'.kind # "none"]_vars

----------------------------------------------------------------------------
(* the text that is searched and remembered *)

\* the extraction leaves the token out of the residual for a season marker,
\* an episode marker or a year in range
Stripped(tok) ==
    \/ fieldSeason(tok) # 0
    \/ fieldEpisode(tok) # 0
    \/ yearInRange(fieldYear(tok))

HintFree(q) == \A i \in 1..Len(q) : ~Stripped(q[i])

\* C31 as stated: no query sent to a movie or show search, and no key of
\* tvShowSelections, has a token that is a season marker, an episode marker
\* or a year in range.
C31_AsStated ==
    /\ \A i \in 1..Len(last) :
          last[i].url.path \in {"search/movie", "search/tv"}
              => HintFree(last[i].url.query)
    /\ \A k \in DOMAIN tvShowSelections : HintFree(k)

----------------------------------------------------------------------------
(* a binding that fails *)

\* the step reads an index of a list of shows, the query giving a season, and
\* the lookup of the show chosen or of its season fails
ChoseShowThatFails ==
    /\ pc = "prompt"
    /\ mode = tvSelector
    /\ Hints.season > 0
    /\ \E k \in 1..numResults :
          Chose(k) /\ LookupFails(loc.results[k].Id, Hints.season)

\* the running call found its query remembered, looked the remembered show
\* up, and that lookup or the lookup of the season failed
RememberedThatFails ==
    /\ pc = "prompt"
    /\ loc.myQuery \in DOMAIN loc.entry.tvShowSelections
    /\ loc.calls # <<>>
    /\ loc.calls[1].url = tvUrl(loc.entry.tvShowSelections[loc.myQuery])
    /\ \E i \in 1..Len(loc.calls) :
          loc.calls[i].url.path \in {"tv", "tv/season"} /\ loc.calls[i].err

\* the step begins a call of HandleQuery: a file begins, or a typed query or
\* the line p is read
BeginsCall == pc = "idle" \/ TypedText \/ Typed = <<"p">>

\* C32: when the show lookup or the season lookup fails on the way into
\* ShowEpisode mode, the mode, the show id, the season, the episodes, the
\* query and the remembered map are as they were before the attempt (at the
\* selection: before the line; at the remembered query: after the mode was
\* derived), a message is shown and the selector is in Show mode.
C32_AtomicBinding ==
    [][/\ ChoseShowThatFails
            => /\ UNCHANGED <<mode, tvId, seasonNumber, tvSeason, query,
                              tvShowSelections>>
               /\ msgs' = {"Invalid tv season selection"}
               /\ pc' = "prompt"
       /\ BeginsCall /\ RememberedThatFails'
            => /\ Selector' = modeStep(loc'.entry, Hints', args').sel
               /\ mode' = tvSelector
               /\ "Error selecting tv show based on previous query" \in msgs'
      ]_vars

\* C32 witness: a file began with a remembered query whose season the
\* catalog does not have, and the call is in Show mode with its message
C32_Witness ==
    /\ RememberedThatFails
    /\ line = NoLine
    /\ mode = tvSelector
    /\ tvId = 0
    /\ "Error selecting tv show based on previous query" \in msgs

----------------------------------------------------------------------------
(* the remembered shows *)

\* C33: no step takes a key out of tvShowSelections, and whenever the mode is
\* ShowEpisode the bound query is a key of the map and its value is the bound
\* show id.
C33_RememberedConsistent ==
    [][/\ DOMAIN tvShowSelections \subseteq DOMAIN tvShowSelections'
       /\ mode' = tvSeasonEpisodeSelector
             => /\ query' \in DOMAIN tvShowSelections'
                /\ tvShowSelections'[query'] = tvId']_vars

\* C33 witness: two queries are remembered and the selector is bound to the
\* show of one of them
C33_Witness ==
    /\ mode = tvSeasonEpisodeSelector
    /\ Cardinality(DOMAIN tvShowSelections) >= 2
    /\ query \in DOMAIN tvShowSelections
    /\ tvShowSelections[query] = tvId

============================================================================
